---- MODULE Spec2Model ----
(***************************************************************************)
(* A model of ncylsp, the Notemancy language server.                       *)
(*                                                                         *)
(*   Spec             the document store of NotemancyServer (server.rs):   *)
(*                    a HashMap<Url, String> behind a tokio RwLock, written *)
(*                    by did_open / did_change and read by the query        *)
(*                    handlers, each handler running as its own task.       *)
(*   SpecTransformer  WikiLinkTransformer (handlers/formatting.rs): the    *)
(*                    iterator adapter between the markdown parser and the  *)
(*                    renderer, one step per iteration of next()'s loop.    *)
(*   SpecLocator      goto_wikilink (handlers/goto.rs) and hover_wikilink   *)
(*                    (handlers/hover_wikilink.rs): the wiki-link under the *)
(*                    cursor, applied to a text and a position.             *)
(*   SpecFair         the store with all requests on one document, every   *)
(*                    task scheduled fairly.                                *)
(*   SpecFormat, SpecSymbols, SpecWorkspace, SpecCompletion, SpecVault,    *)
(*   SpecQueries, SpecClose, SpecChange                                    *)
(*                    the handlers of server.rs called on a store that is  *)
(*                    empty or holds one document: the handler takes its   *)
(*                    snapshot and replies in one step.                    *)
(***************************************************************************)
EXTENDS Integers, Sequences, FiniteSets, TLC

VARIABLES
    documents,    \* server.rs:21  the HashMap<Url, String>, as a set of <<key, value>> entries
    lockReaders,  \* tasks holding an RwLockReadGuard on documents
    lockWriters,  \* tasks holding an RwLockWriteGuard on documents
    lockWaiters,  \* FIFO queue of the tasks suspended in read().await / write().await
    tasks,        \* the handler invocations, in the order the server received them
    applied       \* history: the writer tasks, in the order their insert ran

VARIABLES
    inner,        \* formatting.rs:18  the events the wrapped iterator has yet to yield
    state,        \* formatting.rs:19  State::Normal or State::InWikiLink { dest, title }
    output,       \* the events next() has returned, in order
    ended,        \* next() has returned None
    trace         \* history: one record per loop iteration that consumed an event

VARIABLES
    locText,      \* document_text given to goto_wikilink / hover_wikilink
    locReq,       \* the call: handler, position and what the environment answers
    locRes        \* what the call selected and returned

VARIABLES
    hReq,         \* the query a handler was called with, and what its environment answers
    hRes,         \* what the handler computed and replied
    closed        \* the document ids a did_close notification was handled for

storeVars == <<documents, lockReaders, lockWriters, lockWaiters, tasks, applied>>

transformerVars == <<inner, state, output, ended, trace>>

locatorVars == <<locText, locReq, locRes>>

handlerVars == <<hReq, hRes, closed>>

vars == <<storeVars, transformerVars, locatorVars, handlerVars>>

----------------------------------------------------------------------------
(* Bounds of the model.                                                    *)

MaxTasks == 2      \* handler invocations in one behaviour
MaxChanges == 2    \* content changes carried by one did_change notification
MaxEvents == 4     \* events in the stream given to the transformer
MaxPieces == 2     \* pieces a locator text is put together from
MaxFormatPieces == 3   \* pieces a text given to the formatter is put together from
MaxHeadingPieces == 3  \* pieces a text given to document_symbols is put together from
MaxCompletionPieces == 3   \* pieces a text completion is asked on is put together from
MaxNotes == 2          \* notes in the vault
MaxNoteLines == 2      \* lines of a note

----------------------------------------------------------------------------
(* Values.                                                                 *)

Urls == {"u1", "u2"}

\* Document texts, as sequences of characters.
Texts == { <<"a">>, <<"[", "[", "a", "]", "]">> }

\* String::default(), the value unwrap_or_default() gives for a missing entry.
EmptyText == << >>

NoneVal == "None"

Notifications == {"did_open", "did_change"}

\* The handlers that read the store.
StoreQueries == {"document_symbol", "completion", "goto_definition", "formatting", "hover"}

\* Every query handler; symbol (workspace symbols) never touches the store.
Queries == StoreQueries \cup {"symbol"}

SeqsUpTo(S, n) == UNION { [1..k -> S] : k \in 0..n }

----------------------------------------------------------------------------
(* HashMap<Url, String>                                                    *)

\* HashMap::insert: the entry of key k is replaced.
HashMapInsert(m, k, v) == { e \in m : e[1] # k } \cup { <<k, v>> }

\* HashMap::get(k).cloned()
HashMapGet(m, k) ==
    IF \E e \in m : e[1] = k
    THEN (CHOOSE e \in m : e[1] = k)[2]
    ELSE NoneVal

\* Option::unwrap_or_default() on an Option<String>
UnwrapOrDefault(o) == IF o = NoneVal THEN EmptyText ELSE o

\* NotemancyServer::get_document_text, as a read of the current state.
get_document_text(uri) == HashMapGet(documents, uri)

----------------------------------------------------------------------------
(* Tasks.                                                                  *)

TaskIds == 1..Len(tasks)

NewTask(kind, uri, payload) ==
    [ kind    |-> kind,
      uri     |-> uri,
      payload |-> payload,     \* did_open: the text; did_change: content_changes
      carried |-> IF kind = "did_open" THEN payload
                  ELSE IF kind = "did_change" /\ payload # << >> THEN payload[Len(payload)]
                  ELSE NoneVal, \* history: the full text the notification ends with
      pc      |-> "start",
      text    |-> NoneVal,     \* the handler's local `text` / `change.text`
      reads   |-> 0,           \* how often the handler read the store
      seen    |-> NoneVal,     \* history: the store's text for uri at that read
      arg     |-> NoneVal ]    \* the text the handler's computation was given

\* A did_change that kept the first content change instead of the last.
LastChangeFirst(changes) == IF changes = << >> THEN NoneVal ELSE changes[1]

\* did_change keeps params.content_changes.into_iter().last()
LastChange(changes) == IF changes = << >> THEN NoneVal ELSE changes[Len(changes)]

SetPc(t, pc) == [tasks EXCEPT ![t].pc = pc]

\* The parameters are moved out of the request: the task keeps `text` alone.
TakeText(t, text) == [tasks EXCEPT ![t].text = text, ![t].payload = << >>, ![t].pc = "wait_write"]

----------------------------------------------------------------------------
(* tokio::sync::RwLock: shared readers or one writer, granted in FIFO      *)
(* order of the requests.                                                  *)

\* A write lock that did not wait for the readers to leave.
CanGrantWriteIgnoringReaders(t) ==
    /\ lockWaiters # << >>
    /\ Head(lockWaiters) = t
    /\ lockWriters = {}

CanGrantWrite(t) ==
    /\ lockWaiters # << >>
    /\ Head(lockWaiters) = t
    /\ lockReaders = {}
    /\ lockWriters = {}

CanGrantRead(t) ==
    /\ lockWaiters # << >>
    /\ Head(lockWaiters) = t
    /\ lockWriters = {}

----------------------------------------------------------------------------
(* The transport hands a request or notification to a new task.            *)

Receive(kind, uri, payload) ==
    /\ Len(tasks) < MaxTasks
    /\ tasks' = Append(tasks, NewTask(kind, uri, payload))
    /\ UNCHANGED <<documents, lockReaders, lockWriters, lockWaiters, applied>>

ReceiveDidOpen == \E uri \in Urls, text \in Texts : Receive("did_open", uri, text)

ReceiveDidChange ==
    \E uri \in Urls, changes \in SeqsUpTo(Texts, MaxChanges) :
        Receive("did_change", uri, changes)

ReceiveQuery == \E kind \in StoreQueries, uri \in Urls : Receive(kind, uri, << >>)

ReceiveSymbol == Receive("symbol", NoneVal, << >>)

----------------------------------------------------------------------------
(* did_open (server.rs 74-80) and did_change (server.rs 82-87)             *)

\* self.documents.write() is awaited.
DidOpenRequestWrite(t) ==
    /\ tasks[t].kind = "did_open"
    /\ tasks[t].pc = "start"
    /\ tasks' = TakeText(t, tasks[t].payload)
    /\ lockWaiters' = Append(lockWaiters, t)
    /\ UNCHANGED <<documents, lockReaders, lockWriters, applied>>

\* if let Some(change) = content_changes.into_iter().last() { write().await ... }
DidChangeRequestWrite(t) ==
    /\ tasks[t].kind = "did_change"
    /\ tasks[t].pc = "start"
    /\ LastChange(tasks[t].payload) # NoneVal
    /\ tasks' = TakeText(t, LastChange(tasks[t].payload))
    /\ lockWaiters' = Append(lockWaiters, t)
    /\ UNCHANGED <<documents, lockReaders, lockWriters, applied>>

\* No content change: the handler returns without touching the store.
DidChangeNoChange(t) ==
    /\ tasks[t].kind = "did_change"
    /\ tasks[t].pc = "start"
    /\ LastChange(tasks[t].payload) = NoneVal
    /\ tasks' = SetPc(t, "done")
    /\ UNCHANGED <<documents, lockReaders, lockWriters, lockWaiters, applied>>

\* write().await completes: the task holds the write guard.
GrantWrite(t) ==
    /\ tasks[t].pc = "wait_write"
    /\ CanGrantWrite(t)
    /\ lockWaiters' = Tail(lockWaiters)
    /\ lockWriters' = lockWriters \cup {t}
    /\ tasks' = SetPc(t, "write")
    /\ UNCHANGED <<documents, lockReaders, applied>>

\* The key and value a writer inserts.
InsertKey(t) == tasks[t].uri
InsertValue(t) == tasks[t].text

\* An insert whose write guard outlives the handler.
InsertKeepingGuard(t) ==
    /\ tasks[t].pc = "write"
    /\ t \in lockWriters
    /\ documents' = HashMapInsert(documents, InsertKey(t), InsertValue(t))
    /\ applied' = Append(applied, t)
    /\ tasks' = SetPc(t, "done")
    /\ UNCHANGED <<lockReaders, lockWriters, lockWaiters>>

\* .insert(uri, text); the guard, a temporary, is dropped with the statement.
Insert(t) ==
    /\ tasks[t].pc = "write"
    /\ t \in lockWriters
    /\ documents' = HashMapInsert(documents, InsertKey(t), InsertValue(t))
    /\ lockWriters' = lockWriters \ {t}
    /\ applied' = Append(applied, t)
    /\ tasks' = SetPc(t, "done")
    /\ UNCHANGED <<lockReaders, lockWaiters>>

----------------------------------------------------------------------------
(* The query handlers (server.rs 89-204).                                  *)

\* self.documents.read() is awaited.
RequestRead(t) ==
    /\ tasks[t].kind \in StoreQueries
    /\ tasks[t].pc = "start"
    /\ tasks' = SetPc(t, "wait_read")
    /\ lockWaiters' = Append(lockWaiters, t)
    /\ UNCHANGED <<documents, lockReaders, lockWriters, applied>>

\* read().await completes: the task holds a read guard.
GrantRead(t) ==
    /\ tasks[t].pc = "wait_read"
    /\ CanGrantRead(t)
    /\ lockWaiters' = Tail(lockWaiters)
    /\ lockReaders' = lockReaders \cup {t}
    /\ tasks' = SetPc(t, "read")
    /\ UNCHANGED <<documents, lockWriters, applied>>

\* let text = docs.get(&uri).cloned().unwrap_or_default(); drop(docs);
CloneAndDrop(t) ==
    /\ tasks[t].pc = "read"
    /\ t \in lockReaders
    /\ tasks' = [tasks EXCEPT ![t].text = UnwrapOrDefault(HashMapGet(documents, tasks[t].uri)),
                              ![t].reads = @ + 1,
                              ![t].seen = UnwrapOrDefault(get_document_text(tasks[t].uri)),
                              ![t].pc = "compute"]
    /\ lockReaders' = lockReaders \ {t}
    /\ UNCHANGED <<documents, lockWriters, lockWaiters, applied>>

\* A handler that went back to the store for the text it computes on.
HandlerInputReread(t) == UnwrapOrDefault(HashMapGet(documents, tasks[t].uri))

\* The text a handler hands to its computation: its own copy.
HandlerInput(t) == tasks[t].text

\* A formatting handler that wrote the text it worked on back into the store.
StoreAfterQueryWriteBack(t) ==
    IF tasks[t].kind = "formatting"
    THEN HashMapInsert(documents, tasks[t].uri, tasks[t].text)
    ELSE documents

\* The store as a query handler leaves it.
StoreAfterQuery(t) == documents

\* document_symbols(&text), provide_wiki_link_completions(params, &text),
\* goto_wikilink(&text, ..), format_markdown(&text, ..), hover_wikilink(&text, ..)
Compute(t) ==
    /\ tasks[t].kind \in StoreQueries
    /\ tasks[t].pc = "compute"
    /\ tasks' = [tasks EXCEPT ![t].arg = HandlerInput(t), ![t].pc = "done"]
    /\ documents' = StoreAfterQuery(t)
    /\ UNCHANGED <<lockReaders, lockWriters, lockWaiters, applied>>

\* symbol: get_workspace_symbols(&query) reads the vault, not the store.
Symbol(t) ==
    /\ tasks[t].kind = "symbol"
    /\ tasks[t].pc = "start"
    /\ tasks' = SetPc(t, "done")
    /\ documents' = StoreAfterQuery(t)
    /\ UNCHANGED <<lockReaders, lockWriters, lockWaiters, applied>>

----------------------------------------------------------------------------

StoreInit ==
    /\ documents = {}
    /\ lockReaders = {}
    /\ lockWriters = {}
    /\ lockWaiters = << >>
    /\ tasks = << >>
    /\ applied = << >>

----------------------------------------------------------------------------
(* WikiLinkTransformer (handlers/formatting.rs 6-117).                     *)
(* Strings are sequences of characters.                                    *)

\* pulldown_cmark::Event, with the fields the variants carry.
Ev(kind, link_type, dest_url, title, id, text) ==
    [ kind |-> kind, link_type |-> link_type, dest_url |-> dest_url,
      title |-> title, id |-> id, text |-> text ]

StartLink(link_type, dest_url, title, id) ==
    Ev("StartLink", link_type, dest_url, title, id, << >>)   \* Event::Start(Tag::Link { .. })
EndLink == Ev("EndLink", "-", << >>, << >>, << >>, << >>)    \* Event::End(TagEnd::Link)
EndOther == Ev("EndOther", "-", << >>, << >>, << >>, << >>)  \* Event::End(TagEnd::Emphasis)
TextEv(text) == Ev("Text", "-", << >>, << >>, << >>, text)   \* Event::Text(text)
OtherEv == Ev("Other", "-", << >>, << >>, << >>, << >>)      \* Event::SoftBreak, Start(Emphasis), ..

\* The events a stream is drawn from.
EventAlphabet ==
    { StartLink("WikiLink", <<"d">>, << >>, << >>),
      StartLink("WikiLink", <<"d">>, <<"t">>, << >>),
      StartLink("Reference", <<"d">>, <<"t">>, <<"r">>),
      StartLink("Inline", <<"d">>, << >>, << >>),
      EndLink, EndOther, TextEv(<<"x">>), TextEv(<<"y">>), OtherEv }

\* if let LinkType::WikiLink { .. } = link_type
IsWikiLinkStart(e) == e.kind = "StartLink" /\ e.link_type = "WikiLink"

Normal == [ tag |-> "Normal", dest |-> << >>, title |-> << >> ]
InWikiLink(dest, title) == [ tag |-> "InWikiLink", dest |-> dest, title |-> title ]

\* formatting.rs 63-68: the link start a non-wiki link is re-emitted as.
PassThroughLink(e) == StartLink(e.link_type, e.dest_url, e.title, << >>)

\* An output that always writes the pipe.
WikiLinkOutputAlwaysPiped(dest, title) == <<"[", "[">> \o dest \o <<"|">> \o title \o <<"]", "]">>

\* formatting.rs 95-101: the text a wiki-link is written as.
WikiLinkOutput(dest, title) ==
    <<"[", "[">> \o dest \o (IF title # << >> THEN <<"|">> \o title ELSE << >>) \o <<"]", "]">>

\* An event inside a wiki-link that was handed on instead of skipped.
SkippedEventsHandedOn(e) == << e >>

\* formatting.rs 105-111: what next() returns for a skipped event: nothing, the loop continues.
SkippedEvents(e) == << >>

\* One loop iteration that consumed event e, moved to state `to` and returned `out`.
Consume(e, to, out) ==
    /\ inner' = Tail(inner)
    /\ state' = to
    /\ output' = output \o out
    /\ trace' = Append(trace, [ from |-> state, ev |-> e, to |-> to, out |-> out ])
    /\ UNCHANGED ended

Running == ~ended

\* An end of input that wrote out the wiki-link it was in the middle of.
EndOfInputFlushesPartial(st) ==
    IF st.tag = "InWikiLink" THEN << TextEv(WikiLinkOutput(st.dest, st.title)) >> ELSE << >>

\* formatting.rs 41, 78: `self.inner.next()?` on None returns None from next(),
\* whatever the state holds: no event is returned for it.
EndOfInput(st) == << >>

\* State::Normal, self.inner.next()? is None: next() returns None.
NormalEndOfInput ==
    /\ Running /\ state.tag = "Normal" /\ inner = << >>
    /\ ended' = TRUE
    /\ output' = output \o EndOfInput(state)
    /\ UNCHANGED <<inner, state, trace>>

\* State::Normal, a wiki-link start: enter InWikiLink, emit nothing, continue.
NormalWikiLinkStart ==
    /\ Running /\ state.tag = "Normal" /\ inner # << >>
    /\ IsWikiLinkStart(Head(inner))
    /\ Consume(Head(inner), InWikiLink(Head(inner).dest_url, Head(inner).title), << >>)

\* State::Normal, any other link start: returned to the caller.
NormalOtherLinkStart ==
    /\ Running /\ state.tag = "Normal" /\ inner # << >>
    /\ Head(inner).kind = "StartLink" /\ ~IsWikiLinkStart(Head(inner))
    /\ Consume(Head(inner), state, << PassThroughLink(Head(inner)) >>)

\* State::Normal, `_ => return Some(event)`.
NormalOtherEvent ==
    /\ Running /\ state.tag = "Normal" /\ inner # << >>
    /\ Head(inner).kind # "StartLink"
    /\ Consume(Head(inner), state, << Head(inner) >>)

\* State::InWikiLink, self.inner.next()? is None: next() returns None.
InWikiLinkEndOfInput ==
    /\ Running /\ state.tag = "InWikiLink" /\ inner = << >>
    /\ ended' = TRUE
    /\ output' = output \o EndOfInput(state)
    /\ UNCHANGED <<inner, state, trace>>

\* State::InWikiLink, Event::Text: title.push_str(&text); continue.
InWikiLinkText ==
    /\ Running /\ state.tag = "InWikiLink" /\ inner # << >>
    /\ Head(inner).kind = "Text"
    /\ Consume(Head(inner), InWikiLink(state.dest, state.title \o Head(inner).text), << >>)

\* State::InWikiLink, Event::End(TagEnd::Link): return the wiki-link as one Text event.
InWikiLinkEnd ==
    /\ Running /\ state.tag = "InWikiLink" /\ inner # << >>
    /\ Head(inner).kind = "EndLink"
    /\ Consume(Head(inner), Normal, << TextEv(WikiLinkOutput(state.dest, state.title)) >>)

\* State::InWikiLink, another end tag or any other event: skipped.
InWikiLinkSkip ==
    /\ Running /\ state.tag = "InWikiLink" /\ inner # << >>
    /\ Head(inner).kind \notin {"Text", "EndLink"}
    /\ Consume(Head(inner), state, SkippedEvents(Head(inner)))

\* WikiLinkTransformer::new(iter), not yet given a stream.
TransformerIdle ==
    /\ inner = << >>
    /\ state = Normal
    /\ output = << >>
    /\ ended = FALSE
    /\ trace = << >>

\* WikiLinkTransformer::new(iter) over a stream of at most MaxEvents events.
TransformerInit ==
    /\ inner \in SeqsUpTo(EventAlphabet, MaxEvents)
    /\ state = Normal
    /\ output = << >>
    /\ ended = FALSE
    /\ trace = << >>

----------------------------------------------------------------------------
(* The wiki-link locator: goto_wikilink (handlers/goto.rs 10-79) and       *)
(* hover_wikilink (handlers/hover_wikilink.rs 10-58).                      *)
(* Offsets are zero-based, as in the source; a text is a sequence of       *)
(* one-byte characters, so byte offsets and cursor columns coincide.       *)

Whitespace == {" ", "\t"}

\* The character at zero-based offset i.
Ch(l, i) == l[i + 1]

\* The text from offset a up to, not including, offset b.
Slice(l, a, b) == SubSeq(l, a + 1, b)

IsBlank(l) == \A i \in 1..Len(l) : l[i] \in Whitespace

\* A trim that leaves the text as it is.
TrimNothing(l) == l

\* str::trim
Trim(l) ==
    IF IsBlank(l) THEN << >>
    ELSE LET first == CHOOSE i \in 1..Len(l) :
                          l[i] \notin Whitespace /\ \A j \in 1..(i - 1) : l[j] \in Whitespace
             last == CHOOSE i \in 1..Len(l) :
                          l[i] \notin Whitespace /\ \A j \in (i + 1)..Len(l) : l[j] \in Whitespace
         IN SubSeq(l, first, last)

\* str::lines: split at "\n", a "\r" before it removed, no line for a
\* trailing empty remainder.
StripCR(l) == IF l # << >> /\ l[Len(l)] = "\r" THEN SubSeq(l, 1, Len(l) - 1) ELSE l

RECURSIVE SplitLines(_, _)
SplitLines(rest, cur) ==
    IF rest = << >> THEN (IF cur = << >> THEN << >> ELSE << cur >>)
    ELSE IF Head(rest) = "\n" THEN << StripCR(cur) >> \o SplitLines(Tail(rest), << >>)
    ELSE SplitLines(Tail(rest), Append(cur, Head(rest)))

Lines(text) == SplitLines(text, << >>)

\* The first offset from i on whose character is in S, Len(l) if there is none.
RECURSIVE FirstOf(_, _, _)
FirstOf(l, i, S) ==
    IF i >= Len(l) THEN Len(l)
    ELSE IF Ch(l, i) \in S THEN i
    ELSE FirstOf(l, i + 1, S)

\* What \s*(X+?)\s* captures of the non-empty region [a, b) it has to cover:
\* the greedy \s* takes the leading whitespace and the lazy group stops as
\* soon as the rest is whitespace; of a blank region the greedy \s* gives
\* back the last character.
Capture(l, a, b) ==
    IF IsBlank(Slice(l, a, b)) THEN Slice(l, b - 1, b) ELSE Trim(Slice(l, a, b))

NoMatch == [ start |-> -1, end |-> -1, path |-> << >>, title |-> << >>, piped |-> FALSE ]

Match(s, e, path, title, piped) ==
    [ start |-> s, end |-> e, path |-> path, title |-> title, piped |-> piped ]

\* The match of \[\[\s*(?P<path>[^|\]]+?)\s*(?:\|\s*(?P<title>[^\]]+?)\s*)?\]\]
\* that starts at offset s, if there is one. The path and the whitespace
\* around it cover the characters up to the first "|" or "]"; the title and
\* the whitespace around it those from the "|" up to the first "]".
MatchAt(l, s) ==
    IF ~(s + 1 < Len(l) /\ Ch(l, s) = "[" /\ Ch(l, s + 1) = "[") THEN NoMatch
    ELSE LET p == FirstOf(l, s + 2, {"|", "]"}) IN
         IF p = Len(l) \/ p = s + 2 THEN NoMatch
         ELSE IF Ch(l, p) = "]"
         THEN IF p + 1 < Len(l) /\ Ch(l, p + 1) = "]"
              THEN Match(s, p + 2, Capture(l, s + 2, p), << >>, FALSE)
              ELSE NoMatch
         ELSE LET q == FirstOf(l, p + 1, {"]"}) IN
              IF q = Len(l) \/ q = p + 1 \/ ~(q + 1 < Len(l) /\ Ch(l, q + 1) = "]")
              THEN NoMatch
              ELSE Match(s, q + 2, Capture(l, s + 2, p), Capture(l, p + 1, q), TRUE)

\* re.captures_iter(line): the leftmost match from `from` on, then the
\* matches after its end.
RECURSIVE CapturesFrom(_, _)
CapturesFrom(l, from) ==
    IF from >= Len(l) THEN << >>
    ELSE LET m == MatchAt(l, from) IN
         IF m # NoMatch THEN << m >> \o CapturesFrom(l, m.end)
         ELSE CapturesFrom(l, from + 1)

captures_iter(l) == CapturesFrom(l, 0)

\* A cursor test that leaves out the offset just after the closing "]]".
CursorInMatchHalfOpen(c, m) == c >= m.start /\ c < m.end

\* A cursor test that forgot the start of the match.
CursorInMatchNoStart(c, m) == c <= m.end

\* position.character >= start && position.character <= end
CursorInMatch(c, m) == c >= m.start /\ c <= m.end

\* A scan that keeps the last match the cursor is in.
LastContaining(ms, c) ==
    IF \E i \in 1..Len(ms) : CursorInMatch(c, ms[i])
    THEN ms[CHOOSE i \in 1..Len(ms) :
                /\ CursorInMatch(c, ms[i])
                /\ \A k \in (i + 1)..Len(ms) : ~CursorInMatch(c, ms[k])]
    ELSE NoMatch

\* for caps in re.captures_iter(line): the first match the cursor is in.
RECURSIVE FirstContaining(_, _)
FirstContaining(ms, c) ==
    IF ms = << >> THEN NoMatch
    ELSE IF CursorInMatch(c, Head(ms)) THEN Head(ms)
    ELSE FirstContaining(Tail(ms), c)

Locate(l, c) == FirstContaining(captures_iter(l), c)

Position(line, character) == [ line |-> line, character |-> character ]

Located(m, reply) == [ selected |-> m, reply |-> reply ]

NoReply == [ kind |-> "None", target |-> << >>, line |-> -1, start |-> -1, end |-> -1 ]

\* Location { uri: vault_dir.join(relative_path), range: 0:0-0:0 }
Location(path) == [ kind |-> "Location", target |-> path, line |-> 0, start |-> 0, end |-> 0 ]

\* Hover { contents: the file at vault_dir.join(relative_path), range: the match }
HoverOf(path, line, m) ==
    [ kind |-> "Hover", target |-> path, line |-> line, start |-> m.start, end |-> m.end ]

\* What get_vault_directory and Url::from_file_path answer to goto_wikilink.
GotoEnvs == {"NoVault", "RelativeVault", "Vault"}

\* What get_vault_directory and fs::read_to_string answer to hover_wikilink.
HoverEnvs == {"NoVault", "Unreadable", "Readable"}

goto_wikilink(text, position, env) ==
    LET lines == Lines(text) IN
    IF position.line >= Len(lines) THEN Located(NoMatch, NoReply)
    ELSE LET m == Locate(lines[position.line + 1], position.character) IN
         IF m = NoMatch THEN Located(NoMatch, NoReply)
         ELSE IF Trim(m.path) = << >> THEN Located(m, NoReply)
         ELSE IF env # "Vault" THEN Located(m, NoReply)
         ELSE Located(m, Location(Trim(m.path)))

hover_wikilink(text, position, env) ==
    LET lines == Lines(text) IN
    IF position.line >= Len(lines) THEN Located(NoMatch, NoReply)
    ELSE LET m == Locate(lines[position.line + 1], position.character) IN
         IF m = NoMatch THEN Located(NoMatch, NoReply)
         ELSE IF Trim(m.path) = << >> THEN Located(m, NoReply)
         ELSE IF env # "Readable" THEN Located(m, NoReply)
         ELSE Located(m, HoverOf(Trim(m.path), position.line, m))

\* The pieces a text is put together from.
Pieces ==
    { <<"[", "[">>, <<"]", "]">>, <<"|">>, <<" ">>, <<"a">>, <<"\n">>,
      <<"[", "[", "a", "]", "]">>,
      <<"[", "[", "b", "]", "]">>,
      <<"[", "[", " ", "a", " ", "|", "b", " ", "]", "]">>,
      <<"[", "[", " ", "]", "]">>,
      <<"[", "[", " ", "|", "b", "]", "]">> }

RECURSIVE Flatten(_)
Flatten(ps) == IF ps = << >> THEN << >> ELSE Head(ps) \o Flatten(Tail(ps))

LocatorTexts == { Flatten(ps) : ps \in SeqsUpTo(Pieces, MaxPieces) }

\* The cursor positions tried on a text: every line and one past the last,
\* every offset of the line and one past its end.
Positions(text) ==
    LET lines == Lines(text) IN
    { Position(ln, c) : ln \in 0..Len(lines), c \in 0..1 }
    \cup UNION { { Position(ln, c) : c \in 0..(Len(lines[ln + 1]) + 1) } : ln \in 0..(Len(lines) - 1) }

NoRequest == [ handler |-> "-", position |-> Position(-1, -1), env |-> "-" ]

Call(handler, position, env, res) ==
    /\ locReq = NoRequest
    /\ locReq' = [ handler |-> handler, position |-> position, env |-> env ]
    /\ locRes' = res
    /\ UNCHANGED locText

GotoDefinition ==
    \E position \in Positions(locText), env \in GotoEnvs :
        Call("goto_wikilink", position, env, goto_wikilink(locText, position, env))

Hover ==
    \E position \in Positions(locText), env \in HoverEnvs :
        Call("hover_wikilink", position, env, hover_wikilink(locText, position, env))

LocatorIdle ==
    /\ locText = << >>
    /\ locReq = NoRequest
    /\ locRes = Located(NoMatch, NoReply)

LocatorInit ==
    /\ locText \in LocatorTexts
    /\ locReq = NoRequest
    /\ locRes = Located(NoMatch, NoReply)

----------------------------------------------------------------------------
(* format_markdown (handlers/formatting.rs 122-142): the text is parsed by *)
(* pulldown_cmark::Parser with ENABLE_WIKILINKS, the events go through     *)
(* WikiLinkTransformer and pulldown_cmark_to_cmark::cmark writes them out. *)
(* The parser and the renderer are modelled on paragraphs of plain text    *)
(* and well-formed wiki-links, the texts they are applied to here.         *)

StartParagraph == Ev("StartParagraph", "-", << >>, << >>, << >>, << >>)  \* Event::Start(Tag::Paragraph)
EndParagraph == Ev("EndParagraph", "-", << >>, << >>, << >>, << >>)      \* Event::End(TagEnd::Paragraph)
SoftBreak == Ev("SoftBreak", "-", << >>, << >>, << >>, << >>)            \* Event::SoftBreak

\* The offset of the first "]]" at or after offset i, Len(l) if there is none.
RECURSIVE FindClose(_, _)
FindClose(l, i) ==
    IF i + 1 >= Len(l) THEN Len(l)
    ELSE IF Ch(l, i) = "]" /\ Ch(l, i + 1) = "]" THEN i
    ELSE FindClose(l, i + 1)

\* The events of a wiki-link "[[" body "]]": the link's destination is what
\* stands before the first "|"; the link's text is what stands after it, and
\* the destination itself when there is no "|".
WikiLinkEvents(body) ==
    LET bar == FirstOf(body, 0, {"|"}) IN
    IF bar < Len(body)
    THEN << StartLink("WikiLink", Slice(body, 0, bar), << >>, << >>),
            TextEv(Slice(body, bar + 1, Len(body))), EndLink >>
    ELSE << StartLink("WikiLink", body, << >>, << >>), TextEv(body), EndLink >>

\* The inline events of one line of a paragraph, from offset i on, `cur` being
\* the plain text read since the last event.
RECURSIVE InlineEvents(_, _, _)
InlineEvents(l, i, cur) ==
    LET flush == IF cur = << >> THEN << >> ELSE << TextEv(cur) >> IN
    IF i >= Len(l) THEN flush
    ELSE IF i + 1 < Len(l) /\ Ch(l, i) = "[" /\ Ch(l, i + 1) = "[" /\ FindClose(l, i + 2) < Len(l)
    THEN flush \o WikiLinkEvents(Slice(l, i + 2, FindClose(l, i + 2)))
               \o InlineEvents(l, FindClose(l, i + 2) + 2, << >>)
    ELSE InlineEvents(l, i + 1, Append(cur, Ch(l, i)))

\* The block events of the lines from index k on; `open` says a paragraph is
\* open. A blank line ends a paragraph, the next line of one follows a soft
\* break, and a line counts without the whitespace around it.
RECURSIVE BlockEvents(_, _, _)
BlockEvents(lines, k, open) ==
    IF k > Len(lines) THEN (IF open THEN << EndParagraph >> ELSE << >>)
    ELSE IF IsBlank(lines[k])
    THEN (IF open THEN << EndParagraph >> ELSE << >>) \o BlockEvents(lines, k + 1, FALSE)
    ELSE (IF open THEN << SoftBreak >> ELSE << StartParagraph >>)
             \o InlineEvents(Trim(lines[k]), 0, << >>)
             \o BlockEvents(lines, k + 1, TRUE)

\* Parser::new_ext(text, options)
Parser(text) == BlockEvents(Lines(text), 1, FALSE)

\* WikiLinkTransformer::new(parser), drained: the events next() returns until
\* it returns None, `st` being self.state.
RECURSIVE Transformed(_, _)
Transformed(events, st) ==
    IF events = << >> THEN EndOfInput(st)
    ELSE LET e == Head(events) IN
         IF st.tag = "Normal"
         THEN IF IsWikiLinkStart(e)
              THEN Transformed(Tail(events), InWikiLink(e.dest_url, e.title))
              ELSE IF e.kind = "StartLink"
              THEN << PassThroughLink(e) >> \o Transformed(Tail(events), st)
              ELSE << e >> \o Transformed(Tail(events), st)
         ELSE IF e.kind = "Text"
              THEN Transformed(Tail(events), InWikiLink(st.dest, st.title \o e.text))
              ELSE IF e.kind = "EndLink"
              THEN << TextEv(WikiLinkOutput(st.dest, st.title)) >> \o Transformed(Tail(events), Normal)
              ELSE SkippedEvents(e) \o Transformed(Tail(events), st)

\* The characters the renderer escapes at the start of a text event (the
\* backquote, which no text here holds, left out).
SpecialCharacters == {"#", "\\", "_", "*", "<", ">", "|", "[", "]"}

EscapeLeading(t) ==
    IF t # << >> /\ t[1] \in SpecialCharacters THEN << "\\" >> \o t ELSE t

\* cmark(events, &mut formatted): a paragraph is set off from the one before
\* it by an empty line, a soft break is a line break, a text event is written
\* with its first character escaped where markdown would read it as markup.
RECURSIVE cmark(_, _)
cmark(events, formatted) ==
    IF events = << >> THEN formatted
    ELSE LET e == Head(events) IN
         cmark(Tail(events),
               formatted \o
               CASE e.kind = "StartParagraph" -> (IF formatted = << >> THEN << >> ELSE << "\n", "\n" >>)
                 [] e.kind = "SoftBreak" -> << "\n" >>
                 [] e.kind = "Text" -> EscapeLeading(e.text)
                 [] OTHER -> << >>)

\* str::replace(r"\[[", "[[")
RECURSIVE ReplaceEscapedOpen(_)
ReplaceEscapedOpen(s) ==
    IF s = << >> THEN << >>
    ELSE IF Len(s) >= 3 /\ SubSeq(s, 1, 3) = << "\\", "[", "[" >>
    THEN << "[", "[" >> \o ReplaceEscapedOpen(SubSeq(s, 4, Len(s)))
    ELSE << Head(s) >> \o ReplaceEscapedOpen(Tail(s))

\* format_markdown(text), formatting.rs 122-142; it returns Ok in every case
\* (writing into a String does not fail).
format_markdown(text) ==
    ReplaceEscapedOpen(cmark(Transformed(Parser(text), Normal), << >>))

----------------------------------------------------------------------------
(* process_custom_commands (handlers/custom_commands.rs 22-90)             *)

\* The commands of ^%%(nw|atw|dfw)\s+(\S+)$
CommandNames == { <<"n", "w">>, <<"a", "t", "w">>, <<"d", "f", "w">> }

NoCommand == [ command |-> << >>, workspace_name |-> << >> ]

\* str::trim_start
TrimStart(l) ==
    IF IsBlank(l) THEN << >>
    ELSE SubSeq(l, (CHOOSE i \in 1..Len(l) :
                        l[i] \notin Whitespace /\ \A j \in 1..(i - 1) : l[j] \in Whitespace), Len(l))

\* command_re.captures(trimmed): "%%", one of the commands, whitespace, and
\* a run without whitespace up to the end of the line.
Command(trimmed) ==
    LET named == { c \in CommandNames :
                      /\ Len(trimmed) >= 2 + Len(c)
                      /\ SubSeq(trimmed, 1, 2) = <<"%", "%">>
                      /\ SubSeq(trimmed, 3, 2 + Len(c)) = c }
    IN IF named = {} THEN NoCommand
       ELSE LET c == CHOOSE c \in named : TRUE
                rest == SubSeq(trimmed, 3 + Len(c), Len(trimmed))
                name == TrimStart(rest)
            IN IF \/ rest = << >>
                  \/ rest[1] \notin Whitespace
                  \/ name = << >>
                  \/ \E i \in 1..Len(name) : name[i] \in Whitespace
               THEN NoCommand
               ELSE [ command |-> c, workspace_name |-> name ]

\* A command line whose workspace call failed was put back into the text.
CleanedAfterCommandKeepsFailed(cleaned_lines, line, crud) ==
    IF crud = "Err" THEN Append(cleaned_lines, line) ELSE cleaned_lines

\* custom_commands.rs 45-83: whatever the workspace call returned, the command
\* line is not pushed to cleaned_lines.
CleanedAfterCommand(cleaned_lines, line, crud) == cleaned_lines

\* for line in text.lines(): the cleaned lines, the workspace calls made and
\* the errors logged, after the lines from index k on.
RECURSIVE CommandLoop(_, _, _, _)
CommandLoop(lines, k, crud, acc) ==
    IF k > Len(lines) THEN acc
    ELSE LET line == lines[k]
             caps == Command(Trim(line))
         IN CommandLoop(lines, k + 1, crud,
                IF caps # NoCommand
                THEN [ cleaned_lines |-> CleanedAfterCommand(acc.cleaned_lines, line, crud),
                       calls |-> Append(acc.calls, caps),
                       logged |-> IF crud = "Err" THEN Append(acc.logged, caps) ELSE acc.logged ]
                ELSE [ acc EXCEPT !.cleaned_lines = Append(@, line) ])

\* [&str]::join("\n")
RECURSIVE Join(_)
Join(ls) ==
    IF ls = << >> THEN << >>
    ELSE IF Len(ls) = 1 THEN ls[1]
    ELSE ls[1] \o << "\n" >> \o Join(Tail(ls))

\* Result<String, String>, with what the call did on the way.
OkText(text, calls, logged) ==
    [ ok |-> TRUE, text |-> text, error |-> "-", calls |-> calls, logged |-> logged ]
ErrText(error) ==
    [ ok |-> FALSE, text |-> << >>, error |-> error, calls |-> << >>, logged |-> << >> ]

\* env.vault: what get_vault_directory returns; env.file_uri: whether
\* file_uri.to_file_path() succeeds; env.crud: what the workspace calls return.
process_custom_commands(text, env) ==
    IF env.vault = "Err" THEN ErrText("vault")
    ELSE IF ~env.file_uri THEN ErrText("Invalid file URI")
    ELSE LET done == CommandLoop(Lines(text), 1, env.crud,
                                 [ cleaned_lines |-> << >>, calls |-> << >>, logged |-> << >> ])
         IN OkText(Join(done.cleaned_lines), done.calls, done.logged)

----------------------------------------------------------------------------
(* A query handler called on the store (server.rs 89-204): the handler     *)
(* takes its snapshot of the document and replies, in one step.            *)

\* Result<Option<T>, jsonrpc::Error>
Reply(tag, value) == [ tag |-> tag, value |-> value ]
OkNone == Reply("None", << >>)                   \* Ok(None)
OkSome(value) == Reply("Some", value)            \* Ok(Some(value))
ErrInternal(message) == Reply("Err", message)    \* Err(Error { code: InternalError, message, .. })

\* What the handler's environment answers: get_vault_directory (vault),
\* Url::to_file_path (file_uri), the workspace calls (crud), the reads of the
\* note files and of the note list (notes).
Env(vault, file_uri, crud, notes) ==
    [ vault |-> vault, file_uri |-> file_uri, crud |-> crud, notes |-> notes ]

NoPosition == Position(-1, -1)

NoCall == [ handler |-> "-", uri |-> "-", position |-> NoPosition, env |-> Env("Ok", TRUE, "Ok", "Ok") ]

Result(text, reply, out) == [ text |-> text, reply |-> reply, out |-> out ]

\* docs.get(&uri).cloned().unwrap_or_default() under the read guard.
Snapshot(uri) == UnwrapOrDefault(HashMapGet(documents, uri))

\* A handler that reads through entry(uri).or_default(): the read leaves an
\* empty document behind for an id that had none.
CallHandlerOrInsert(handler, uri, position, env, res) ==
    /\ hReq = NoCall
    /\ hReq' = [ handler |-> handler, uri |-> uri, position |-> position, env |-> env ]
    /\ hRes' = res
    /\ documents' = IF HashMapGet(documents, uri) = NoneVal
                    THEN documents \cup { <<uri, EmptyText>> }
                    ELSE documents
    /\ UNCHANGED closed

CallHandler(handler, uri, position, env, res) ==
    /\ hReq = NoCall
    /\ hReq' = [ handler |-> handler, uri |-> uri, position |-> position, env |-> env ]
    /\ hRes' = res
    /\ UNCHANGED <<documents, closed>>

HandlerIdle ==
    /\ hReq = NoCall
    /\ hRes = Result(<< >>, OkNone, "-")
    /\ closed = {}

\* The store and the tasks after one did_open(uri, text) has completed.
AfterDidOpen(uri, text) ==
    /\ documents = { <<uri, text>> }
    /\ lockReaders = {}
    /\ lockWriters = {}
    /\ lockWaiters = << >>
    /\ tasks = << [ NewTask("did_open", uri, text) EXCEPT !.payload = << >>, !.text = text, !.pc = "done" ] >>
    /\ applied = << 1 >>

\* The store empty, or holding one of the texts T for u1; u2 has no entry.
StoreHolding(T) == StoreInit \/ \E text \in T : AfterDidOpen("u1", text)

----------------------------------------------------------------------------
(* formatting (server.rs 152-191)                                          *)

\* format_markdown(&text, &uri) as the handler calls it: the command lines
\* are taken out by process_custom_commands, what remains is formatted.
format_markdown_uri(text, env) ==
    LET commands == process_custom_commands(text, env) IN
    [ ok |-> commands.ok,
      formatted |-> IF commands.ok THEN format_markdown(commands.text) ELSE << >>,
      error |-> commands.error,
      commands |-> commands ]

Range(start, end) == [ start |-> start, end |-> end ]

\* A range that ends on the last line of the text, at its length.
FullRangeToLastLine(text) ==
    LET lines == Lines(text) IN
    Range(Position(0, 0),
          IF lines = << >> THEN Position(0, 0)
          ELSE Position(Len(lines) - 1, Len(lines[Len(lines)])))

\* server.rs 173-184: from 0:0 to line lines.len(), character the length of
\* the last line.
FullRange(text) ==
    LET lines == Lines(text) IN
    Range(Position(0, 0),
          Position(Len(lines), IF lines = << >> THEN 0 ELSE Len(lines[Len(lines)])))

TextEdit(range, new_text) == [ range |-> range, new_text |-> new_text ]

formatting(text, env) ==
    LET formatted == format_markdown_uri(text, env) IN
    Result(text,
           IF ~formatted.ok THEN ErrInternal("Markdown formatting error")
           ELSE IF formatted.formatted = text THEN OkNone
           ELSE OkSome(<< TextEdit(FullRange(text), formatted.formatted) >>),
           formatted)

\* The pieces the documents given to the formatter are put together from.
FormatPieces ==
    { <<"a">>, <<"\n">>,
      <<"[", "[", "a", "]", "]">>,
      <<"[", "[", "a", "|", "b", "]", "]">>,
      <<"%", "%", "a", "t", "w", " ", "w">>,
      <<" ", "%", "%", "n", "w", " ", "w">> }

FormatTexts == { Flatten(ps) : ps \in SeqsUpTo(FormatPieces, MaxFormatPieces) }

FormatEnvs == { Env(vault, file_uri, crud, "Ok") :
                    vault \in {"Ok", "Err"}, file_uri \in BOOLEAN, crud \in {"Ok", "Err"} }

Formatting ==
    \E uri \in Urls, env \in FormatEnvs :
        CallHandler("formatting", uri, NoPosition, env, formatting(Snapshot(uri), env))

\* format_markdown called on a text, as test_formatting_wikilink calls it.
FormatMarkdown ==
    \E uri \in Urls :
        CallHandler("format_markdown", uri, NoPosition, NoCall.env,
                    Result(Snapshot(uri), Reply("Ok", format_markdown(Snapshot(uri))), "-"))

----------------------------------------------------------------------------
(* document_symbols (handlers/document_symbols.rs 5-52) and the            *)
(* document_symbol handler (server.rs 89-107)                              *)

\* trimmed.chars().take_while(|&c| c == '#').count()
RECURSIVE TakeWhileHash(_)
TakeWhileHash(l) ==
    IF l # << >> /\ Head(l) = "#" THEN 1 + TakeWhileHash(Tail(l)) ELSE 0

DocumentSymbol(name, line, length) ==
    [ name |-> name,
      kind |-> "NAMESPACE",
      range |-> Range(Position(line, 0), Position(line, length)),
      selection_range |-> Range(Position(line, 0), Position(line, length)),
      children |-> "None" ]

\* for (i, line) in text.lines().enumerate(), from index k (line k - 1) on.
RECURSIVE SymbolsFrom(_, _)
SymbolsFrom(lines, k) ==
    IF k > Len(lines) THEN << >>
    ELSE LET line == lines[k]
             trimmed == TrimStart(line)
             level == TakeWhileHash(trimmed)
         IN (IF trimmed # << >> /\ trimmed[1] = "#" /\ level >= 1 /\ level <= 6
             THEN << DocumentSymbol(Trim(SubSeq(trimmed, level + 1, Len(trimmed))), k - 1, Len(line)) >>
             ELSE << >>)
            \o SymbolsFrom(lines, k + 1)

document_symbols(text) == SymbolsFrom(Lines(text), 1)

\* Ok(Some(DocumentSymbolResponse::Nested(symbols)))
document_symbol(text) == Result(text, OkSome(document_symbols(text)), "-")

\* The pieces the documents given to document_symbols are put together from.
HeadingPieces ==
    { <<"#">>, <<"#", "#", "#", "#", "#", "#">>, <<" ">>, <<"a">>, <<"\n">> }

HeadingTexts == { Flatten(ps) : ps \in SeqsUpTo(HeadingPieces, MaxHeadingPieces) }

DocumentSymbols ==
    \E uri \in Urls :
        CallHandler("document_symbol", uri, NoPosition, NoCall.env, document_symbol(Snapshot(uri)))

----------------------------------------------------------------------------
(* get_workspace_symbols (handlers/workspace_symbols.rs 12-90) and the     *)
(* symbol handler (server.rs 109-122)                                      *)

NoHeading == [ heading |-> FALSE, heading_text |-> << >> ]

\* re.captures(line) for ^\s*(#{1,6})\s+(.*)$ : whitespace, 1 to 6 "#",
\* whitespace, and the rest of the line as the heading text.
HeadingCaptures(line) ==
    LET l == TrimStart(line)
        level == TakeWhileHash(l)
    IN IF level >= 1 /\ level <= 6 /\ Len(l) > level /\ l[level + 1] \in Whitespace
       THEN [ heading |-> TRUE, heading_text |-> TrimStart(SubSeq(l, level + 1, Len(l))) ]
       ELSE NoHeading

SymbolInformation(name, note, line, length) ==
    [ name |-> name,
      kind |-> "STRING",
      location |-> [ uri |-> note, range |-> Range(Position(line, 0), Position(line, length)) ],
      container_name |-> note ]

\* for (i, line) in content.lines().enumerate(), from index k on, in note `note`.
RECURSIVE NoteSymbols(_, _, _)
NoteSymbols(note, lines, k) ==
    IF k > Len(lines) THEN << >>
    ELSE (IF HeadingCaptures(lines[k]).heading
          THEN << SymbolInformation(HeadingCaptures(lines[k]).heading_text, note, k - 1, Len(lines[k])) >>
          ELSE << >>)
         \o NoteSymbols(note, lines, k + 1)

\* for note in note_paths.iter(), from note n on; the notes are named by
\* their place in the list.
RECURSIVE CorpusSymbols(_, _)
CorpusSymbols(corpus, n) ==
    IF n > Len(corpus) THEN << >>
    ELSE NoteSymbols(n, Lines(corpus[n]), 1) \o CorpusSymbols(corpus, n + 1)

\* fuse.search_text_in_string(query, label) gave no ScoreResult.
NoScore == -1

\* scored.sort_by(|a, b| a.1.partial_cmp(&b.1).unwrap()): a stable sort of
\* the (index, score) pairs by score.
RECURSIVE InsertByScore(_, _)
InsertByScore(sorted, pair) ==
    IF sorted = << >> THEN << pair >>
    ELSE IF pair[2] < Head(sorted)[2] THEN << pair >> \o sorted
    ELSE << Head(sorted) >> \o InsertByScore(Tail(sorted), pair)

RECURSIVE SortByScore(_)
SortByScore(scored) ==
    IF scored = << >> THEN << >>
    ELSE InsertByScore(SortByScore(SubSeq(scored, 1, Len(scored) - 1)), scored[Len(scored)])

\* workspace_symbols.rs 70-77: the (index, score) pairs of the labels the
\* scorer gave a score, in index order.
RECURSIVE Scored(_, _, _)
Scored(symbols, scorer, i) ==
    IF i > Len(symbols) THEN << >>
    ELSE (IF scorer[symbols[i].name] # NoScore THEN << <<i, scorer[symbols[i].name]>> >> ELSE << >>)
         \o Scored(symbols, scorer, i + 1)

\* workspace_symbols.rs 80-86: symbols.into_iter().enumerate()
\*     .filter(|(i, _)| matched_indices.contains(i)).map(|(_, sym)| sym)
RECURSIVE Matched(_, _, _)
Matched(symbols, matched_indices, i) ==
    IF i > Len(symbols) THEN << >>
    ELSE (IF \E j \in 1..Len(matched_indices) : matched_indices[j] = i
          THEN << symbols[i] >> ELSE << >>)
         \o Matched(symbols, matched_indices, i + 1)

\* workspace_symbols.rs 57-87
Ranked(symbols, query, scorer) ==
    IF query = << >> THEN symbols
    ELSE LET scored == SortByScore(Scored(symbols, scorer, 1))
             matched_indices == [ j \in 1..Len(scored) |-> scored[j][1] ]
         IN Matched(symbols, matched_indices, 1)

\* Result<Vec<SymbolInformation>, String>; env.notes is what list_all_notes
\* and the reads of the note files answer, env.file_uri whether
\* Url::from_file_path takes the note's path.
get_workspace_symbols(query, corpus, scorer, env) ==
    IF env.vault = "Err" THEN [ ok |-> FALSE, symbols |-> << >>, error |-> "vault" ]
    ELSE IF env.notes = "ListErr" THEN [ ok |-> FALSE, symbols |-> << >>, error |-> "list_all_notes" ]
    ELSE IF env.notes = "ReadErr" /\ corpus # << >>
    THEN [ ok |-> FALSE, symbols |-> << >>, error |-> "Failed to read" ]
    ELSE IF ~env.file_uri /\ CorpusSymbols(corpus, 1) # << >>
    THEN [ ok |-> FALSE, symbols |-> << >>, error |-> "Invalid file path" ]
    ELSE [ ok |-> TRUE, symbols |-> Ranked(CorpusSymbols(corpus, 1), query, scorer), error |-> "-" ]

\* server.rs 109-122
symbol(query, corpus, scorer, env) ==
    LET symbols == get_workspace_symbols(query, corpus, scorer, env) IN
    Result(<< >>,
           IF symbols.ok THEN OkSome(symbols.symbols) ELSE ErrInternal(symbols.error),
           symbols)

\* The lines the notes of the vault are put together from.
NoteLines == { <<"#", " ", "a">>, <<"#", "#", " ", " ", "b">>, <<"a">> }

NoteTexts == { Join(ls) : ls \in SeqsUpTo(NoteLines, MaxNoteLines) }

Corpora == SeqsUpTo(NoteTexts, MaxNotes)

\* The heading texts of a corpus.
Labels(corpus) ==
    { CorpusSymbols(corpus, 1)[i].name : i \in 1..Len(CorpusSymbols(corpus, 1)) }

\* The scores the scorer gives, lower being better.
Scores == {0, 1}

WorkspaceQueries == { << >>, <<"a">> }

SymbolEnvs ==
    { Env("Ok", TRUE, "Ok", "Ok"), Env("Err", TRUE, "Ok", "Ok"), Env("Ok", FALSE, "Ok", "Ok"),
      Env("Ok", TRUE, "Ok", "ListErr"), Env("Ok", TRUE, "Ok", "ReadErr") }

\* The scorer is asked only for a query that is not empty, in a vault that
\* could be read.
Scorers(query, corpus, env) ==
    IF query = << >> \/ env # NoCall.env
    THEN { [ label \in Labels(corpus) |-> NoScore ] }
    ELSE [ Labels(corpus) -> Scores \cup {NoScore} ]

WorkspaceSymbols ==
    /\ hReq = NoCall
    /\ \E query \in WorkspaceQueries, corpus \in Corpora, env \in SymbolEnvs :
       \E scorer \in Scorers(query, corpus, env) :
           /\ hReq' = [ handler |-> "symbol", uri |-> "-", position |-> NoPosition, env |-> env,
                        query |-> query, corpus |-> corpus, scorer |-> scorer ]
           /\ hRes' = symbol(query, corpus, scorer, env)
           /\ UNCHANGED <<documents, closed>>

----------------------------------------------------------------------------
(* Completion: is_inside_wiki_link (handlers/completion.rs 96-117),        *)
(* provide_wiki_link_completions (46-91), completion (server.rs 124-133)   *)

Min(a, b) == IF a < b THEN a ELSE b

\* str::rfind(pat), pat of two characters: the offset of the last
\* occurrence, -1 for None.
RECURSIVE RFind2(_, _, _)
RFind2(l, pat, i) ==
    IF i < 0 THEN -1
    ELSE IF i + 2 <= Len(l) /\ Slice(l, i, i + 2) = pat THEN i
    ELSE RFind2(l, pat, i - 1)

\* str::find(pat), pat of two characters: the offset of the first
\* occurrence from offset i on, -1 for None.
RECURSIVE Find2(_, _, _)
Find2(l, pat, i) ==
    IF i + 2 > Len(l) THEN -1
    ELSE IF Slice(l, i, i + 2) = pat THEN i
    ELSE Find2(l, pat, i + 1)

\* A prefix that forgot the cursor: the whole line.
PrefixWholeLine(line, character) == line

\* &line[..(position.character as usize).min(line.len())]
Prefix(line, character) == Slice(line, 0, Min(character, Len(line)))

\* A test that shuts the cursor out at the closing delimiter itself.
BeforeCloseStrict(character, close_index) == character < close_index

\* (position.character as usize) <= close_index
BeforeClose(character, close_index) == character <= close_index

is_inside_wiki_link(text, position) ==
    LET lines == Lines(text) IN
    IF position.line >= Len(lines) THEN FALSE
    ELSE LET line == lines[position.line + 1]
             prefix == Prefix(line, position.character)
             start_index == RFind2(prefix, <<"[", "[">>, Len(prefix) - 2)
         IN IF start_index = -1 THEN FALSE
            ELSE LET close_index == Find2(line, <<"]", "]">>, start_index) IN
                 IF close_index # -1 THEN BeforeClose(position.character, close_index)
                 ELSE TRUE

\* The notes list_all_notes finds in the vault and what get_title reads as
\* the title of each; the title of the second cannot be determined.
VaultNotes ==
    << [ note |-> "n1.md", title |-> <<"N">> ], [ note |-> "n2.md", title |-> NoneVal ],
       [ note |-> "n3.md", title |-> <<"a">> ] >>

CompletionItem(title, note) ==
    [ label |-> title, kind |-> "FILE",
      insert_text |-> <<"[", "[">> \o title \o <<"]", "]">>, detail |-> note ]

\* for note in note_paths, from index k on: a note without a title is skipped.
RECURSIVE Items(_, _)
Items(notes, k) ==
    IF k > Len(notes) THEN << >>
    ELSE (IF notes[k].title = NoneVal THEN << >>
          ELSE << CompletionItem(notes[k].title, notes[k].note) >>)
         \o Items(notes, k + 1)

provide_wiki_link_completions(text, position, env) ==
    IF ~is_inside_wiki_link(text, position) THEN OkNone
    ELSE IF env.vault = "Err" THEN ErrInternal("vault")
    ELSE IF env.notes = "ListErr" THEN ErrInternal("list_all_notes")
    ELSE OkSome(Items(VaultNotes, 1))

\* server.rs 124-133
completion(text, position, env) ==
    Result(text, provide_wiki_link_completions(text, position, env),
           [ inside |-> is_inside_wiki_link(text, position) ])

\* The pieces the documents completion is asked on are put together from.
CompletionPieces ==
    { <<"[", "[">>, <<"]", "]">>, <<"a">>, <<"\n">>, <<"s", "e", "e", " ", "[", "[", "N">> }

CompletionTexts == { Flatten(ps) : ps \in SeqsUpTo(CompletionPieces, MaxCompletionPieces) }

CompletionEnvs ==
    { Env("Ok", TRUE, "Ok", "Ok"), Env("Err", TRUE, "Ok", "Ok"), Env("Ok", TRUE, "Ok", "ListErr") }

Completion ==
    /\ hReq = NoCall
    /\ \E uri \in Urls, env \in CompletionEnvs :
       \E position \in Positions(Snapshot(uri)) :
           CallHandler("completion", uri, position, env, completion(Snapshot(uri), position, env))

----------------------------------------------------------------------------
(* goto_definition (server.rs 135-150) and hover (server.rs 193-204),      *)
(* called on the store                                                     *)

\* What the environment answers to goto_wikilink: get_vault_directory fails,
\* Url::from_file_path fails, or both succeed.
GotoEnv(env) ==
    IF env.vault = "Err" THEN "NoVault"
    ELSE IF ~env.file_uri THEN "RelativeVault"
    ELSE "Vault"

\* What the environment answers to hover_wikilink: get_vault_directory
\* fails, fs::read_to_string fails, or both succeed.
HoverEnv(env) ==
    IF env.vault = "Err" THEN "NoVault"
    ELSE IF env.notes = "ReadErr" THEN "Unreadable"
    ELSE "Readable"

\* if let Some(x) = ... { Ok(Some(x)) } else { Ok(None) }
OkOption(located) ==
    IF located.reply = NoReply THEN OkNone ELSE OkSome(located.reply)

goto_definition(text, position, env) ==
    LET located == goto_wikilink(text, position, GotoEnv(env)) IN
    Result(text, OkOption(located), located)

hover(text, position, env) ==
    LET located == hover_wikilink(text, position, HoverEnv(env)) IN
    Result(text, OkOption(located), located)

LocatorEnvs ==
    { Env("Ok", TRUE, "Ok", "Ok"), Env("Err", TRUE, "Ok", "Ok"), Env("Ok", FALSE, "Ok", "Ok"),
      Env("Ok", TRUE, "Ok", "ReadErr") }

GotoDefinitionOnStore ==
    /\ hReq = NoCall
    /\ \E uri \in Urls, env \in LocatorEnvs :
       \E position \in Positions(Snapshot(uri)) :
           CallHandler("goto_definition", uri, position, env,
                       goto_definition(Snapshot(uri), position, env))

HoverOnStore ==
    /\ hReq = NoCall
    /\ \E uri \in Urls, env \in LocatorEnvs :
       \E position \in Positions(Snapshot(uri)) :
           CallHandler("hover", uri, position, env, hover(Snapshot(uri), position, env))

\* The documents the queries are asked on: a link, an unterminated link, a
\* heading, a command line before a body line, and plain text.
QueryTexts ==
    { <<"[", "[", "a", "]", "]">>, <<"[", "[", "a">>, <<"#", " ", "a">>,
      <<"%", "%", "a", "t", "w", " ", "w", "\n", "a">>, <<"a">> }

----------------------------------------------------------------------------
(* did_change (server.rs 82-87) as one step on the store: what the         *)
(* notification does to the store when its write is not contended.         *)

\* A did_change that writes an empty text when it carries no change.
did_change_or_default(docs, uri, content_changes) ==
    HashMapInsert(docs, uri, UnwrapOrDefault(LastChange(content_changes)))

\* if let Some(change) = params.content_changes.into_iter().last() {
\*     self.documents.write().await.insert(uri, change.text); }
did_change(docs, uri, content_changes) ==
    IF LastChange(content_changes) = NoneVal THEN docs
    ELSE HashMapInsert(docs, uri, LastChange(content_changes))

DidChange ==
    /\ hReq = NoCall
    /\ \E uri \in Urls, content_changes \in SeqsUpTo(QueryTexts, MaxChanges) :
          /\ hReq' = [ handler |-> "did_change", uri |-> uri, position |-> NoPosition,
                       env |-> NoCall.env, content_changes |-> content_changes ]
          /\ hRes' = Result(Snapshot(uri), OkNone, [ before |-> documents ])
          /\ documents' = did_change(documents, uri, content_changes)
          /\ UNCHANGED closed

----------------------------------------------------------------------------
(* textDocument/didClose. NotemancyServer (server.rs 38-209) defines no     *)
(* did_close, so the notification runs the default method of the           *)
(* LanguageServer trait, which logs that it is not implemented.            *)

did_close(docs, uri) == docs

DidClose ==
    /\ hReq = NoCall
    /\ \E uri \in Urls :
          /\ uri \notin closed
          /\ closed' = closed \cup {uri}
          /\ documents' = did_close(documents, uri)
          /\ UNCHANGED <<hReq, hRes>>

----------------------------------------------------------------------------
(* Specifications.                                                         *)

\* The steps of one component leave the other components as they are.
StoreOnly == UNCHANGED <<transformerVars, locatorVars, handlerVars>>
TransformerOnly == UNCHANGED <<storeVars, locatorVars, handlerVars>>
LocatorOnly == UNCHANGED <<storeVars, transformerVars, handlerVars>>
HandlerOnly ==
    UNCHANGED <<lockReaders, lockWriters, lockWaiters, tasks, applied, transformerVars, locatorVars>>

Init == StoreInit /\ TransformerIdle /\ LocatorIdle /\ HandlerIdle

Next ==
    \/ ReceiveDidOpen /\ StoreOnly
    \/ ReceiveDidChange /\ StoreOnly
    \/ ReceiveQuery /\ StoreOnly
    \/ ReceiveSymbol /\ StoreOnly
    \/ (\E t \in TaskIds : DidOpenRequestWrite(t)) /\ StoreOnly
    \/ (\E t \in TaskIds : DidChangeRequestWrite(t)) /\ StoreOnly
    \/ (\E t \in TaskIds : DidChangeNoChange(t)) /\ StoreOnly
    \/ (\E t \in TaskIds : GrantWrite(t)) /\ StoreOnly
    \/ (\E t \in TaskIds : Insert(t)) /\ StoreOnly
    \/ (\E t \in TaskIds : RequestRead(t)) /\ StoreOnly
    \/ (\E t \in TaskIds : GrantRead(t)) /\ StoreOnly
    \/ (\E t \in TaskIds : CloneAndDrop(t)) /\ StoreOnly
    \/ (\E t \in TaskIds : Compute(t)) /\ StoreOnly
    \/ (\E t \in TaskIds : Symbol(t)) /\ StoreOnly

Spec == Init /\ [][Next]_vars

\* The steps of task t.
TaskStep(t) ==
    /\ t \in TaskIds
    /\ \/ DidOpenRequestWrite(t) \/ DidChangeRequestWrite(t) \/ DidChangeNoChange(t)
       \/ GrantWrite(t) \/ Insert(t)
       \/ RequestRead(t) \/ GrantRead(t) \/ CloneAndDrop(t) \/ Compute(t) \/ Symbol(t)
    /\ StoreOnly

\* What a request of each kind carries when all requests name one document:
\* the lock is one for the whole map, and no step of it looks at a text.
PayloadsOnOneDocument(kind) ==
    IF kind = "did_open" THEN { <<"a">> }
    ELSE IF kind = "did_change" THEN { << >>, << <<"a">> >> }
    ELSE { << >> }

ReceiveOnOneDocument ==
    \E kind \in Notifications \cup StoreQueries :
        \E payload \in PayloadsOnOneDocument(kind) : Receive(kind, "u1", payload)

NextFair ==
    \/ ReceiveOnOneDocument /\ StoreOnly
    \/ ReceiveSymbol /\ StoreOnly
    \/ (\E t \in TaskIds : DidOpenRequestWrite(t)) /\ StoreOnly
    \/ (\E t \in TaskIds : DidChangeRequestWrite(t)) /\ StoreOnly
    \/ (\E t \in TaskIds : DidChangeNoChange(t)) /\ StoreOnly
    \/ (\E t \in TaskIds : GrantWrite(t)) /\ StoreOnly
    \/ (\E t \in TaskIds : Insert(t)) /\ StoreOnly
    \/ (\E t \in TaskIds : RequestRead(t)) /\ StoreOnly
    \/ (\E t \in TaskIds : GrantRead(t)) /\ StoreOnly
    \/ (\E t \in TaskIds : CloneAndDrop(t)) /\ StoreOnly
    \/ (\E t \in TaskIds : Compute(t)) /\ StoreOnly
    \/ (\E t \in TaskIds : Symbol(t)) /\ StoreOnly

\* The tokio runtime polls every task that can make progress, and the lock
\* wakes its waiters in the order they asked.
SpecFair == Init /\ [][NextFair]_vars /\ \A t \in 1..MaxTasks : WF_vars(TaskStep(t))

InitTransformer == StoreInit /\ TransformerInit /\ LocatorIdle /\ HandlerIdle

NextTransformer ==
    \/ NormalEndOfInput /\ TransformerOnly
    \/ NormalWikiLinkStart /\ TransformerOnly
    \/ NormalOtherLinkStart /\ TransformerOnly
    \/ NormalOtherEvent /\ TransformerOnly
    \/ InWikiLinkEndOfInput /\ TransformerOnly
    \/ InWikiLinkText /\ TransformerOnly
    \/ InWikiLinkEnd /\ TransformerOnly
    \/ InWikiLinkSkip /\ TransformerOnly

SpecTransformer == InitTransformer /\ [][NextTransformer]_vars

\* next() is straight-line code in a loop: called, it runs on until it returns,
\* and the renderer calls it until it returns None.
SpecTransformerFair == SpecTransformer /\ WF_vars(NextTransformer)

InitLocator == StoreInit /\ TransformerIdle /\ LocatorInit /\ HandlerIdle

NextLocator ==
    \/ GotoDefinition /\ LocatorOnly
    \/ Hover /\ LocatorOnly

SpecLocator == InitLocator /\ [][NextLocator]_vars

InitFormat == StoreHolding(FormatTexts) /\ TransformerIdle /\ LocatorIdle /\ HandlerIdle

NextFormat ==
    \/ Formatting /\ HandlerOnly
    \/ FormatMarkdown /\ HandlerOnly

SpecFormat == InitFormat /\ [][NextFormat]_vars

InitSymbols == StoreHolding(HeadingTexts) /\ TransformerIdle /\ LocatorIdle /\ HandlerIdle

NextSymbols ==
    \/ DocumentSymbols /\ HandlerOnly

SpecSymbols == InitSymbols /\ [][NextSymbols]_vars

InitCompletion == StoreHolding(CompletionTexts) /\ TransformerIdle /\ LocatorIdle /\ HandlerIdle

NextCompletion ==
    \/ Completion /\ HandlerOnly

SpecCompletion == InitCompletion /\ [][NextCompletion]_vars

InitQueries == StoreHolding(QueryTexts) /\ TransformerIdle /\ LocatorIdle /\ HandlerIdle

\* The queries that need the vault.
NextVault ==
    \/ Completion /\ HandlerOnly
    \/ HoverOnStore /\ HandlerOnly
    \/ GotoDefinitionOnStore /\ HandlerOnly
    \/ WorkspaceSymbols /\ HandlerOnly
    \/ Formatting /\ HandlerOnly

SpecVault == InitQueries /\ [][NextVault]_vars

\* The queries that name a document.
NextQueries ==
    \/ DocumentSymbols /\ HandlerOnly
    \/ Completion /\ HandlerOnly
    \/ GotoDefinitionOnStore /\ HandlerOnly
    \/ HoverOnStore /\ HandlerOnly
    \/ Formatting /\ HandlerOnly

SpecQueries == InitQueries /\ [][NextQueries]_vars

\* Documents are closed, and queries are asked after that.
NextClose ==
    \/ DidClose /\ HandlerOnly
    \/ DocumentSymbols /\ HandlerOnly
    \/ Completion /\ HandlerOnly
    \/ GotoDefinitionOnStore /\ HandlerOnly
    \/ HoverOnStore /\ HandlerOnly
    \/ Formatting /\ HandlerOnly

SpecClose == InitQueries /\ [][NextClose]_vars

\* One change notification on a store that is empty or holds one document.
NextChange ==
    \/ DidChange /\ HandlerOnly

SpecChange == InitQueries /\ [][NextChange]_vars

\* symbol reads the vault, not the store: the store is as the server starts it.
InitWorkspace == StoreInit /\ TransformerIdle /\ LocatorIdle /\ HandlerIdle

NextWorkspace ==
    \/ WorkspaceSymbols /\ HandlerOnly

SpecWorkspace == InitWorkspace /\ [][NextWorkspace]_vars

----------------------------------------------------------------------------
(* The document store: claims.                                             *)

\* The writers that have applied a text to uri, in the order they applied it.
AppliedTo(uri) == SelectSeq(applied, LAMBDA t : tasks[t].uri = uri)

\* C1: after any sequence of open and change notifications, a read of a
\* document id returns the full text of the most recently applied open or
\* change for that id (a change for an unopened id creates the entry), nothing
\* for an id no applied notification named, and the store holds at most one
\* text per id.
C1_ReadReturnsLatestText ==
    \A uri \in Urls :
        /\ Cardinality({ e \in documents : e[1] = uri }) <= 1
        /\ get_document_text(uri) =
              IF AppliedTo(uri) = << >>
              THEN NoneVal
              ELSE tasks[AppliedTo(uri)[Len(AppliedTo(uri))]].carried

\* C1 witness: two notifications with different texts were applied to one id,
\* the later one a change, and the read returns the later text while the
\* other id reads as nothing.
C1_Witness ==
    /\ Len(applied) = 2
    /\ tasks[applied[1]].uri = tasks[applied[2]].uri
    /\ tasks[applied[2]].kind = "did_change"
    /\ tasks[applied[1]].carried # tasks[applied[2]].carried
    /\ get_document_text(tasks[applied[2]].uri) = tasks[applied[2]].carried
    /\ \E uri \in Urls : get_document_text(uri) = NoneVal

\* C2: a writer holding the store excludes every reader and every other
\* writer; only tasks that asked for the lock hold it.
C2_WriterExcludesAll ==
    /\ Cardinality(lockWriters) <= 1
    /\ lockWriters # {} => lockReaders = {}
    /\ \A t \in lockWriters : tasks[t].kind \in Notifications /\ tasks[t].pc = "write"
    /\ \A t \in lockReaders : tasks[t].kind \in StoreQueries /\ tasks[t].pc = "read"

\* C2 witness: a writer holds the store while a query waits for read access.
C2_Witness ==
    /\ lockWriters # {}
    /\ \E i \in 1..Len(lockWaiters) : tasks[lockWaiters[i]].kind \in StoreQueries

\* C2, the shared side: two query handlers hold read access at the same time.
C2_TwoReaders == Cardinality(lockReaders) >= 2

\* C3: a query handler that has finished read the store exactly once and
\* computed on the text the store held for its id at that read, whatever was
\* written to the store afterwards.
C3_OneSnapshotPerQuery ==
    \A t \in TaskIds :
        (tasks[t].kind \in StoreQueries /\ tasks[t].pc = "done") =>
            /\ tasks[t].reads = 1
            /\ tasks[t].arg = tasks[t].seen

\* C3 witness: a query finished on its copy although a change to the same id
\* was applied between its read and its computation.
C3_Witness ==
    \E t \in TaskIds :
        /\ tasks[t].kind \in StoreQueries
        /\ tasks[t].pc = "done"
        /\ tasks[t].arg = tasks[t].seen
        /\ UnwrapOrDefault(get_document_text(tasks[t].uri)) # tasks[t].arg

\* C4: two change notifications for one document, received A then B and both
\* completed (no other notification having written that document), leave B's
\* text in the store.
C4_ChangesAppliedInReceiveOrder ==
    \A a \in TaskIds, b \in TaskIds :
        ( /\ a < b
          /\ tasks[a].kind = "did_change" /\ tasks[b].kind = "did_change"
          /\ tasks[a].uri = tasks[b].uri
          /\ tasks[a].pc = "done" /\ tasks[b].pc = "done"
          /\ tasks[a].carried # NoneVal /\ tasks[b].carried # NoneVal
          /\ Len(AppliedTo(tasks[a].uri)) = 2 )
        => get_document_text(tasks[b].uri) = tasks[b].carried

\* C5: a step of a query handler leaves the mapping from document id to text
\* as it was.
C5_QueriesLeaveStoreUnchanged ==
    [][ \A t \in TaskIds :
            (tasks[t].kind \in Queries /\ tasks'[t] # tasks[t]) => documents' = documents ]_vars

\* C5 witness: a formatting request has completed on a stored text and the
\* store still maps its id to that text.
C5_Witness ==
    \E t \in TaskIds :
        /\ tasks[t].kind = "formatting"
        /\ tasks[t].pc = "done"
        /\ tasks[t].arg \in Texts
        /\ get_document_text(tasks[t].uri) = tasks[t].arg

----------------------------------------------------------------------------
(* WikiLinkTransformer: claims.                                            *)

\* The iteration that consumed the link start of the wiki-link open at iteration i.
LinkStartOf(i) ==
    CHOOSE j \in 1..(i - 1) :
        /\ trace[j].from.tag = "Normal" /\ IsWikiLinkStart(trace[j].ev)
        /\ \A k \in (j + 1)..(i - 1) :
              ~(trace[k].from.tag = "Normal" /\ IsWikiLinkStart(trace[k].ev))

\* The contents of the text events consumed in iterations lo..hi, in order.
RECURSIVE TextsConsumed(_, _)
TextsConsumed(lo, hi) ==
    IF lo > hi THEN << >>
    ELSE (IF trace[lo].ev.kind = "Text" THEN trace[lo].ev.text ELSE << >>)
             \o TextsConsumed(lo + 1, hi)

\* The parser-supplied title, then every text consumed since the link start.
AccumulatedTitle(i) ==
    trace[LinkStartOf(i)].ev.title \o TextsConsumed(LinkStartOf(i) + 1, i - 1)

\* C8: a link-end consumed inside a wiki-link yields exactly one text event,
\* "[[" dest "]]" when the accumulated title is empty and "[[" dest "|" title "]]"
\* otherwise, the title being the parser-supplied one followed by every text
\* consumed since the link start; the transformer is then back in Normal.
C8_LinkEndEmitsWikiLinkText ==
    \A i \in 1..Len(trace) :
        (trace[i].from.tag = "InWikiLink" /\ trace[i].ev.kind = "EndLink") =>
            LET dest == trace[LinkStartOf(i)].ev.dest_url
                title == AccumulatedTitle(i)
            IN /\ trace[i].out =
                     << TextEv(IF title = << >>
                               THEN <<"[", "[">> \o dest \o <<"]", "]">>
                               ELSE <<"[", "[">> \o dest \o <<"|">> \o title \o <<"]", "]">>) >>
               /\ trace[i].to = Normal

\* C8 witness: a wiki-link with a parser-supplied title and two text events
\* has been closed and written as [[d|txy]].
C8_Witness ==
    /\ Len(trace) = 4
    /\ trace[4].from.tag = "InWikiLink"
    /\ trace[4].ev.kind = "EndLink"
    /\ output = << TextEv(<<"[", "[", "d", "|", "t", "x", "y", "]", "]">>) >>
    /\ state = Normal

\* C9: in Normal, every consumed event that is not a wiki-link link-start is
\* returned unchanged, a link start of another kind with its link kind,
\* destination, title and id.
C9_NormalPassesThroughUnchanged ==
    \A i \in 1..Len(trace) :
        (trace[i].from.tag = "Normal" /\ ~IsWikiLinkStart(trace[i].ev)) =>
            trace[i].out = << trace[i].ev >>

\* C10: no wiki-link link-start is ever returned; consuming one returns
\* nothing and enters InWikiLink; until the next link-end every consumed event
\* returns nothing and leaves the state InWikiLink, a text event appended to
\* the title and every other event dropped.
C10_NothingEmittedInsideWikiLink ==
    /\ \A k \in 1..Len(output) : ~IsWikiLinkStart(output[k])
    /\ \A i \in 1..Len(trace) :
        /\ (trace[i].from.tag = "Normal" /\ IsWikiLinkStart(trace[i].ev)) =>
              /\ trace[i].out = << >>
              /\ trace[i].to = InWikiLink(trace[i].ev.dest_url, trace[i].ev.title)
        /\ (trace[i].from.tag = "InWikiLink" /\ trace[i].ev.kind # "EndLink") =>
              /\ trace[i].out = << >>
              /\ trace[i].to =
                    InWikiLink(trace[i].from.dest,
                               IF trace[i].ev.kind = "Text"
                               THEN trace[i].from.title \o trace[i].ev.text
                               ELSE trace[i].from.title)

\* C10 witness: after a wiki-link start, a text, a break and an end tag of
\* another kind, nothing has been returned and the text is in the title.
C10_Witness ==
    /\ Len(trace) = 4
    /\ IsWikiLinkStart(trace[1].ev)
    /\ trace[2].ev.kind = "Text"
    /\ trace[3].ev.kind = "Other"
    /\ trace[4].ev.kind = "EndOther"
    /\ output = << >>
    /\ state = InWikiLink(trace[1].ev.dest_url, trace[1].ev.title \o trace[2].ev.text)

\* C11: over every finite event stream the pull loop terminates: each
\* iteration consumes one event of the input, the output ends only when the
\* input is exhausted, and at that point, in Normal as inside a wiki-link,
\* nothing more is returned (the unfinished wiki-link is not written out) and
\* nothing changes afterwards.
C11_PullLoopTerminates ==
    /\ <>ended
    /\ [][ /\ ~ended => (ended' \/ Len(inner') < Len(inner))
           /\ (~ended /\ ended') => (inner = << >> /\ output' = output /\ state' = state)
           /\ ended => (ended' /\ output' = output) ]_vars

\* C11 witness: the input ended inside a wiki-link that had taken up a text;
\* the output has ended and holds only what was returned before the link.
C11_Witness ==
    /\ ended
    /\ state.tag = "InWikiLink"
    /\ state.title # << >>
    /\ Len(trace) = MaxEvents
    /\ trace[Len(trace)].ev.kind = "Text"
    /\ output = << TextEv(<<"x">>) >>

\* The stream the transformer was given: what it consumed and what is left.
InputStream == [ i \in 1..Len(trace) |-> trace[i].ev ] \o inner

\* Link starts less link ends among the first n events of es.
LinkDepth(es, n) ==
    Cardinality({ i \in 1..n : es[i].kind = "StartLink" })
        - Cardinality({ i \in 1..n : es[i].kind = "EndLink" })

\* Every link end closes a link start that is open.
EndsCloseStarts(es) == \A n \in 0..Len(es) : LinkDepth(es, n) >= 0

ProperlyPaired(es) == EndsCloseStarts(es) /\ LinkDepth(es, Len(es)) = 0

\* The link end that closes the link start at index i of a paired stream.
ClosingEnd(es, i) ==
    CHOOSE j \in (i + 1)..Len(es) :
        /\ LinkDepth(es, j) = LinkDepth(es, i - 1)
        /\ \A k \in i..(j - 1) : LinkDepth(es, k) > LinkDepth(es, i - 1)

\* C28: for an input stream whose link starts and link ends are properly
\* paired, every link end in the output closes a link start of the output
\* that is open, and every wiki-link span of the input gives exactly one
\* text event, returned when the link end of that span is consumed.
C28_OutputKeepsLinksPaired ==
    ProperlyPaired(InputStream) =>
        /\ EndsCloseStarts(output)
        /\ \A i \in 1..Len(trace) :
              (IsWikiLinkStart(InputStream[i]) /\ ClosingEnd(InputStream, i) <= Len(trace)) =>
                  LET j == ClosingEnd(InputStream, i) IN
                  /\ Len(trace[j].out) = 1 /\ trace[j].out[1].kind = "Text"
                  /\ \A k \in i..(j - 1) : trace[k].out = << >>

----------------------------------------------------------------------------
(* Formatting: claims.                                                     *)

\* The wiki-links written in a text, in order, as they stand in it.
RECURSIVE Spans(_, _)
Spans(text, ms) ==
    IF ms = << >> THEN << >>
    ELSE << Slice(text, Head(ms).start, Head(ms).end) >> \o Spans(text, Tail(ms))

LinksOf(text) == Spans(text, captures_iter(text))

\* C12: round trip: the text format_markdown returns for a text whose links
\* are all well-formed wiki-links holds the wiki-links of the text, each as it
\* was written: [[target]] as [[target]], [[target|title]] with its title.
C12_RoundTrip ==
    hReq.handler = "format_markdown" => LinksOf(hRes.reply.value) = LinksOf(hRes.text)

\* The position of the end of a text: the line after its last line break, at
\* the number of characters that follow that break.
RECURSIVE EndOfText(_, _, _)
EndOfText(text, line, character) ==
    IF text = << >> THEN Position(line, character)
    ELSE IF Head(text) = "\n" THEN EndOfText(Tail(text), line + 1, 0)
    ELSE EndOfText(Tail(text), line, character + 1)

\* The range starts at 0:0 and ends at or after the end of the text.
CoversDocument(range, text) ==
    LET last == EndOfText(text, 0, 0) IN
    /\ range.start = Position(0, 0)
    /\ \/ range.end.line > last.line
       \/ range.end.line = last.line /\ range.end.character >= last.character

\* C13: a formatting request whose formatter succeeded is answered with no
\* edit exactly when the formatted text equals the snapshot text, and
\* otherwise with exactly one edit, whose new text is the formatted text and
\* whose range starts at 0:0 and covers the whole snapshot.
C13_EditExactlyWhenTextDiffers ==
    (hReq.handler = "formatting" /\ hRes.out.ok) =>
        /\ hRes.text = Snapshot(hReq.uri)
        /\ (hRes.reply.tag = "None") <=> (hRes.out.formatted = hRes.text)
        /\ hRes.reply.tag # "None" =>
              /\ hRes.reply.tag = "Some"
              /\ Len(hRes.reply.value) = 1
              /\ hRes.reply.value[1].new_text = hRes.out.formatted
              /\ CoversDocument(hRes.reply.value[1].range, hRes.text)

\* C13 witness: the snapshot "a" and a line break is formatted to "a", and the
\* reply is the one edit that replaces 0:0-1:1 by "a".
C13_Witness ==
    /\ hReq.handler = "formatting"
    /\ hRes.text = <<"a", "\n">>
    /\ hRes.reply = OkSome(<< TextEdit(Range(Position(0, 0), Position(1, 1)), <<"a">>) >>)

\* C13, the other side: a snapshot that is already as the formatter writes it
\* is answered with no edit.
C13_NoEdit ==
    /\ hReq.handler = "formatting"
    /\ hRes.text = <<"[", "[", "a", "|", "b", "]", "]">>
    /\ hRes.out.ok
    /\ hRes.reply = OkNone

\* A directive line: without the whitespace around it, the line is "%%", one
\* of nw, atw, dfw, whitespace, and one argument without whitespace.
DirectiveLine(line) ==
    LET l == Trim(line) IN
    \E c \in { <<"n", "w">>, <<"a", "t", "w">>, <<"d", "f", "w">> } :
    \E k \in (Len(c) + 4)..Len(l) :
        /\ SubSeq(l, 1, Len(c) + 2) = <<"%", "%">> \o c
        /\ \A i \in (Len(c) + 3)..(k - 1) : l[i] \in Whitespace
        /\ \A i \in k..Len(l) : l[i] \notin Whitespace

\* The lines of a text that are no directive lines, in order.
OtherLines(text) == SelectSeq(Lines(text), LAMBDA line : ~DirectiveLine(line))

DirectiveLines(text) == SelectSeq(Lines(text), DirectiveLine)

\* C14: with the vault and the document's path at hand, formatting is not
\* aborted by a failing workspace call: every directive line makes one call,
\* a failed call is logged, and the formatted output is that of the text
\* without its directive lines, the other lines kept in order, and holds no
\* directive line, the same whether the calls succeed or fail.
C14_DirectiveLinesRemoved ==
    (hReq.handler = "formatting" /\ hReq.env.vault = "Ok" /\ hReq.env.file_uri) =>
        /\ hRes.reply.tag # "Err"
        /\ hRes.out.ok
        /\ hRes.out.commands.text = Join(OtherLines(hRes.text))
        /\ hRes.out.formatted = format_markdown(Join(OtherLines(hRes.text)))
        /\ DirectiveLines(hRes.out.formatted) = << >>
        /\ Len(hRes.out.commands.calls) = Len(DirectiveLines(hRes.text))
        /\ hRes.out.commands.logged =
              IF hReq.env.crud = "Err" THEN hRes.out.commands.calls ELSE << >>

\* C14 witness: "%%atw w" above the line "a", the workspace call failing: the
\* failure is logged and the reply replaces the document by "a".
C14_Witness ==
    /\ hReq.handler = "formatting"
    /\ hReq.env.crud = "Err"
    /\ hRes.text = <<"%", "%", "a", "t", "w", " ", "w", "\n", "a">>
    /\ hRes.out.commands.logged =
          << [ command |-> <<"a", "t", "w">>, workspace_name |-> <<"w">> ] >>
    /\ hRes.reply.tag = "Some"
    /\ hRes.reply.value[1].new_text = <<"a">>

----------------------------------------------------------------------------
(* Symbols: claims.                                                        *)

\* The number of "#" the first non-whitespace run of the line starts with.
Marker(line) == TakeWhileHash(TrimStart(line))

\* The first non-whitespace run of the line is 1 to 6 "#", followed by whitespace.
HeadingLine(line) ==
    LET l == TrimStart(line) IN
    /\ Marker(line) \in 1..6
    /\ Len(l) > Marker(line)
    /\ l[Marker(line) + 1] \in Whitespace

\* The symbols the heading lines from index k on stand for.
RECURSIVE HeadingSymbols(_, _)
HeadingSymbols(lines, k) ==
    IF k > Len(lines) THEN << >>
    ELSE (IF HeadingLine(lines[k])
          THEN << [ name |-> Trim(SubSeq(TrimStart(lines[k]), Marker(lines[k]) + 1,
                                         Len(TrimStart(lines[k])))),
                    line |-> k - 1, length |-> Len(lines[k]) ] >>
          ELSE << >>)
         \o HeadingSymbols(lines, k + 1)

\* C15: the document symbols of a text are one symbol per heading line, in
\* line order, a heading line being a line whose first non-whitespace run is
\* 1 to 6 "#" followed by whitespace; the symbol is named by the rest of the
\* line without the whitespace around it, ranges over its whole line and has
\* no children; no other line (7 "#", no "#") yields a symbol.
C15_SymbolsAreHeadingLines ==
    hReq.handler = "document_symbol" =>
        LET want == HeadingSymbols(Lines(hRes.text), 1)
            got == hRes.reply.value
        IN /\ hRes.reply.tag = "Some"
           /\ Len(got) = Len(want)
           /\ \A i \in 1..Len(want) :
                 /\ got[i].name = want[i].name
                 /\ got[i].range = Range(Position(want[i].line, 0),
                                         Position(want[i].line, want[i].length))
                 /\ got[i].children = "None"

\* The symbols a corpus has for the labels a scorer accepts.
Accepted(corpus, scorer) ==
    SelectSeq(CorpusSymbols(corpus, 1), LAMBDA sym : scorer[sym.name] # NoScore)

\* C16: workspace symbols, the vault readable: with a non-empty query the
\* reply holds exactly the headings the scorer accepts, every other heading
\* dropped, listed in ascending order of score, best match first; with an
\* empty query it holds every heading.
C16_AcceptedInScoreOrder ==
    (hReq.handler = "symbol" /\ hRes.reply.tag = "Some") =>
        LET got == hRes.reply.value IN
        IF hReq.query = << >> THEN got = CorpusSymbols(hReq.corpus, 1)
        ELSE /\ Len(got) = Len(Accepted(hReq.corpus, hReq.scorer))
             /\ \A sym \in { got[i] : i \in 1..Len(got) } :
                   Cardinality({ i \in 1..Len(got) : got[i] = sym }) =
                   Cardinality({ i \in 1..Len(Accepted(hReq.corpus, hReq.scorer)) :
                                   Accepted(hReq.corpus, hReq.scorer)[i] = sym })
             /\ \A i \in 1..Len(got), j \in 1..Len(got) :
                   i < j => hReq.scorer[got[i].name] <= hReq.scorer[got[j].name]

\* C22: a workspace-symbols query during which a note file cannot be read
\* does not reply with an error: it replies with the symbols it has, or none.
C22_UnreadableNoteNotPropagated ==
    (hReq.handler = "symbol" /\ hReq.env.notes = "ReadErr" /\ hReq.corpus # << >>) =>
        hRes.reply.tag = "Some"

----------------------------------------------------------------------------
(* Completion: claims.                                                     *)

HCursorLineInRange == hReq.position.line < Len(Lines(hRes.text))

HCursorLine == Lines(hRes.text)[hReq.position.line + 1]

HCursor == hReq.position.character

\* Completions are offered: the reply is not the empty one, and it is the
\* list of the titled notes when the vault can be read.
Offered ==
    /\ hRes.reply.tag # "None"
    /\ hReq.env = NoCall.env =>
          /\ hRes.reply.tag = "Some"
          /\ Len(hRes.reply.value) = 2
          /\ hRes.reply.value[1].insert_text = <<"[", "[", "N", "]", "]">>

SeeLine == <<"s", "e", "e", " ", "[", "[", "N">>

\* C17, as amended: on the line "see [[N" completions are offered with the
\* cursor at offset 6, two characters into the unterminated link, and are
\* not offered with the cursor at offset 0 or at offset 2.
C17_GateOnSeeLine ==
    (hReq.handler = "completion" /\ HCursorLineInRange /\ HCursorLine = SeeLine) =>
        /\ HCursor = 6 => Offered
        /\ HCursor \in {0, 2} => hRes.reply = OkNone

\* C17 witness: the cursor at offset 6 of "see [[N", the vault readable, and
\* the reply lists the notes that have a title.
C17_Witness ==
    /\ hReq.handler = "completion"
    /\ hRes.text = SeeLine
    /\ hReq.position = Position(0, 6)
    /\ hRes.reply = OkSome(<< CompletionItem(<<"N">>, "n1.md"), CompletionItem(<<"a">>, "n3.md") >>)

\* C17, as claimed: on the line "see [[N" completions are offered with the
\* cursor at offset 2 and not offered with the cursor at offset 0.
C17_Original ==
    (hReq.handler = "completion" /\ HCursorLineInRange /\ HCursorLine = SeeLine) =>
        /\ HCursor = 2 => Offered
        /\ HCursor = 0 => hRes.reply = OkNone

\* The offsets of line l at which pat, two characters long, stands.
Occurrences(l, pat) == { i \in 0..(Len(l) - 2) : Slice(l, i, i + 2) = pat }

\* The text of the line before the cursor contains "[[", and after the
\* nearest one either no "]]" follows on the line or the cursor is at or
\* before the first "]]" that follows.
GateOpen(l, c) ==
    \E s \in Occurrences(l, <<"[", "[">>) :
        /\ s + 2 <= c
        /\ \A t \in Occurrences(l, <<"[", "[">>) : t + 2 <= c => t <= s
        /\ LET closes == { e \in Occurrences(l, <<"]", "]">>) : e >= s } IN
           \/ closes = {}
           \/ \A e \in closes : (\A f \in closes : e <= f) => c <= e

\* C18: the completion gate is open exactly when the cursor's line exists
\* and, before the cursor, holds a "[[" whose nearest occurrence is followed
\* by no "]]" or by a first "]]" the cursor is at or before; in every other
\* case, a cursor line past the end of the document among them, completion
\* replies nothing.
C18_GateExactlyInsideLink ==
    hReq.handler = "completion" =>
        /\ hRes.out.inside = (HCursorLineInRange /\ GateOpen(HCursorLine, HCursor))
        /\ ~hRes.out.inside => hRes.reply = OkNone
        /\ hRes.out.inside => hRes.reply.tag # "None"

\* C18 witness: in "[[a]]" the cursor at offset 3, on the first "]" of the
\* closing delimiter, is inside and completions are listed.
C18_Witness ==
    /\ hReq.handler = "completion"
    /\ hRes.text = <<"[", "[", "a", "]", "]">>
    /\ hReq.position = Position(0, 3)
    /\ hRes.out.inside
    /\ hRes.reply.tag = "Some"

\* C18, the closed side: in "[[a]]" the cursor at offset 4 is past the link
\* and completion replies nothing.
C18_Outside ==
    /\ hReq.handler = "completion"
    /\ hRes.text = <<"[", "[", "a", "]", "]">>
    /\ hReq.position = Position(0, 4)
    /\ hRes.reply = OkNone

----------------------------------------------------------------------------
(* Errors and missing sessions: claims.                                    *)

VaultDependent == {"completion", "hover", "goto_definition", "symbol", "formatting"}

VaultMissing == hReq.env.vault = "Err"

\* C19: with the vault root not determinable every vault-dependent query
\* (completion, hover, goto-definition, workspace symbols, formatting)
\* replies with the internal error, and no query replies with an error
\* for any other reason.
C19_MissingVaultIsTheOnlyError ==
    hReq.handler \in VaultDependent =>
        /\ VaultMissing => hRes.reply.tag = "Err"
        /\ hRes.reply.tag = "Err" => VaultMissing

DocumentQueries == {"document_symbol", "completion", "goto_definition", "hover", "formatting"}

NoSession == HashMapGet(documents, hReq.uri) = NoneVal

EmptyOrAbsent == hRes.reply \in { OkNone, OkSome(<< >>) }

\* The reply to a query on an id with no session.
NoSessionAnswered ==
    (hReq.handler \in DocumentQueries /\ NoSession) =>
        /\ hReq.handler # "formatting" => EmptyOrAbsent
        /\ hReq.handler = "formatting" =>
              IF VaultMissing \/ ~hReq.env.file_uri THEN hRes.reply.tag = "Err"
              ELSE hRes.reply = OkNone
        /\ hRes.text = EmptyText

C26_ChangeStoresLastOnly ==
    hReq.handler = "did_change" =>
        LET changes == hReq.content_changes
            before == hRes.out.before
        IN IF changes = << >> THEN documents = before
           ELSE /\ get_document_text(hReq.uri) = changes[Len(changes)]
                /\ Cardinality({ e \in documents : e[1] = hReq.uri }) = 1
                /\ \A uri \in Urls \ {hReq.uri} :
                      HashMapGet(documents, uri) = HashMapGet(before, uri)

\* C26 witness: a change notification carried "a" and then "[[a]]" for an id
\* whose session held another text, and the store holds "[[a]]" for it.
C26_Witness ==
    /\ hReq.handler = "did_change"
    /\ hReq.content_changes = << <<"a">>, <<"[", "[", "a", "]", "]">> >>
    /\ hRes.text = <<"#", " ", "a">>
    /\ get_document_text(hReq.uri) = <<"[", "[", "a", "]", "]">>

\* C26, no content change: the notification named an id without a session
\* and the store still has no entry for it.
C26_NoChange ==
    /\ hReq.handler = "did_change"
    /\ hReq.content_changes = << >>
    /\ hReq.uri = "u2"
    /\ documents # {}
    /\ get_document_text("u2") = NoneVal

\* Task t holds the store: a read guard or the write guard.
Holds(t) == t \in lockReaders \cup lockWriters

Waits(t) == \E i \in 1..Len(lockWaiters) : lockWaiters[i] = t

\* A task that holds the store is at the statement that uses the guard: it
\* neither computes its result nor waits for the store.
NoHoldWhileComputingOrWaiting ==
    \A t \in TaskIds :
        Holds(t) => (tasks[t].pc \in {"read", "write"} /\ ~Waits(t))

\* C27: under fair scheduling every notification and every query the server
\* received completes, whatever the other tasks do, and no task holds the
\* store while it computes its result or waits for the store.
C27_EveryRequestCompletes ==
    /\ []NoHoldWhileComputingOrWaiting
    /\ \A t \in 1..MaxTasks : (t \in TaskIds) ~> (t \in TaskIds /\ tasks[t].pc = "done")

\* C27 witness: a query that had to wait for read access behind a writer has
\* completed, and so has the writer.
C27_Witness ==
    \E r \in TaskIds, w \in TaskIds :
        /\ tasks[r].kind \in StoreQueries /\ tasks[r].pc = "done"
        /\ tasks[w].kind \in {"did_open", "did_change"} /\ tasks[w].pc = "done"
        /\ tasks[r].uri = tasks[w].uri
        /\ applied = << w >>
        /\ tasks[r].seen = tasks[w].carried
        /\ r < w

\* C23: after a close notification for a document id, and with no open or
\* change for that id since, a read of the id returns nothing and a query
\* on the id works on no text.
C23_CloseRemovesSession ==
    \A uri \in closed :
        /\ get_document_text(uri) = NoneVal
        /\ (hReq.handler \in DocumentQueries /\ hReq.uri = uri) => hRes.text = EmptyText

\* No wiki-link occurrence of the cursor's line contains the cursor.
NoOccurrenceAtCursor ==
    \/ hReq.position.line >= Len(Lines(hRes.text))
    \/ \A i \in 1..Len(captures_iter(HCursorLine)) :
          ~CursorInMatch(HCursor, captures_iter(HCursorLine)[i])

TargetUnreadable == hReq.env.notes = "ReadErr"

\* C21: goto-definition and hover reply with nothing, and not with an error,
\* when no wiki-link occurrence contains the cursor or the target file of
\* the located occurrence cannot be read; on a hit with a readable target
\* goto-definition replies with line 0, character 0 of the target path
\* under the vault root.
C21_NothingWhenNotFoundOrUnreadable ==
    hReq.handler \in {"goto_definition", "hover"} =>
        /\ hRes.reply.tag # "Err"
        /\ (NoOccurrenceAtCursor \/ TargetUnreadable) => hRes.reply = OkNone
        /\ ( /\ hReq.handler = "goto_definition"
             /\ ~NoOccurrenceAtCursor
             /\ hReq.env = NoCall.env )
           => hRes.reply = OkSome(Location(hRes.out.selected.path))

----------------------------------------------------------------------------
(* The wiki-link locator: claims.                                          *)

Requested == locReq # NoRequest

CursorLineInRange == locReq.position.line < Len(Lines(locText))

CursorLine == Lines(locText)[locReq.position.line + 1]

Cursor == locReq.position.character

\* The grammar "[[" ws* target ws* ("|" ws* title ws*)? "]]", target a
\* non-empty run without "|" and "]", title a non-empty run without "]":
\* the characters of l from offset s up to offset e are such a construct.
GrammarSpan(l, s, e) ==
    /\ 0 <= s /\ s + 5 <= e /\ e <= Len(l)
    /\ Slice(l, s, s + 2) = <<"[", "[">>
    /\ Slice(l, e - 2, e) = <<"]", "]">>
    /\ LET inside == Slice(l, s + 2, e - 2) IN
       \/ \A j \in 1..Len(inside) : inside[j] \notin {"|", "]"}
       \/ \E b \in 2..(Len(inside) - 1) :
             /\ inside[b] = "|"
             /\ \A j \in 1..(b - 1) : inside[j] \notin {"|", "]"}
             /\ \A j \in (b + 1)..Len(inside) : inside[j] # "]"

\* The target of match m is what stands between "[[" and the first "|" (or
\* the "]]"), its title what stands between that "|" and the "]]", each
\* without the whitespace around it.
TrimmedParts(l, m) ==
    LET inside == Slice(l, m.start + 2, m.end - 2)
        bar == FirstOf(inside, 0, {"|"})
    IN /\ GrammarSpan(l, m.start, m.end)
       /\ m.piped = (bar < Len(inside))
       /\ m.path = Trim(Slice(inside, 0, bar))
       /\ (m.piped /\ ~IsBlank(Slice(inside, bar + 1, Len(inside)))) =>
             m.title = Trim(Slice(inside, bar + 1, Len(inside)))

SpanHasCursor(m) == m.start <= Cursor /\ Cursor <= m.end

\* C6, as amended: for every occurrence the left-to-right scan finds on the
\* cursor's line, with a target that is not blank, and every cursor offset
\* with matchStart <= c <= matchEnd that lies in the span of no earlier
\* occurrence, the locator selects that occurrence; its target, and its title
\* unless blank, are extracted without the whitespace around them, and the
\* reply, when there is one, is for that target.
C6_LocatorSelectsOccurrence ==
    (Requested /\ CursorLineInRange) =>
        LET ms == captures_iter(CursorLine) IN
        \A i \in 1..Len(ms) :
            ( /\ Trim(ms[i].path) # << >>
              /\ SpanHasCursor(ms[i])
              /\ \A k \in 1..(i - 1) : ~SpanHasCursor(ms[k]) )
            => /\ locRes.selected = ms[i]
               /\ TrimmedParts(CursorLine, ms[i])
               /\ locReq.env \in {"Vault", "Readable"} =>
                     /\ locRes.reply # NoReply
                     /\ locRes.reply.target = ms[i].path

\* C6 witness: with the cursor just after the closing "]]" of "[[ a |b ]]"
\* the locator selected it, target "a" and title "b", and goto replied.
C6_Witness ==
    /\ Requested /\ CursorLineInRange
    /\ locRes.selected # NoMatch
    /\ Slice(CursorLine, locRes.selected.start, locRes.selected.end)
          = <<"[", "[", " ", "a", " ", "|", "b", " ", "]", "]">>
    /\ Cursor = locRes.selected.end
    /\ locRes.selected.path = <<"a">>
    /\ locRes.selected.title = <<"b">>
    /\ locRes.reply = Location(<<"a">>)

\* C6, as claimed: for every occurrence on the cursor's line and every cursor
\* offset with matchStart <= c <= matchEnd the locator selects that occurrence.
C6_Original ==
    (Requested /\ CursorLineInRange) =>
        LET ms == captures_iter(CursorLine) IN
        \A i \in 1..Len(ms) :
            (Trim(ms[i].path) # << >> /\ SpanHasCursor(ms[i])) => locRes.selected = ms[i]

\* The matches of the cursor's line whose span holds the cursor.
MatchesAtCursor ==
    { i \in 1..Len(captures_iter(CursorLine)) : SpanHasCursor(captures_iter(CursorLine)[i]) }

EnvAnswers == locReq.env \in {"Vault", "Readable"}

\* C24: when more than one wiki-link match of the cursor's line contains
\* the cursor under matchStart <= cursor <= matchEnd, the locator selects
\* the leftmost of them, and goto-definition and hover reply for the target
\* of that match (with nothing when that target is blank), never for the
\* target of a later one.
C24_LeftmostMatchWins ==
    (Requested /\ CursorLineInRange /\ Cardinality(MatchesAtCursor) > 1) =>
        LET ms == captures_iter(CursorLine)
            first == CHOOSE i \in MatchesAtCursor : \A k \in MatchesAtCursor : i <= k
        IN /\ locRes.selected = ms[first]
           /\ locRes.reply # NoReply => locRes.reply.target = ms[first].path
           /\ (EnvAnswers /\ ~IsBlank(ms[first].path)) => locRes.reply # NoReply
           /\ IsBlank(ms[first].path) => locRes.reply = NoReply

\* C24 witness: "[[a]][[b]]" with the cursor at offset 5, the end of the
\* first link and the start of the second: goto-definition replies for "a".
C24_Witness ==
    /\ Requested /\ CursorLineInRange
    /\ CursorLine = <<"[", "[", "a", "]", "]", "[", "[", "b", "]", "]">>
    /\ Cursor = 5
    /\ locRes.selected.path = <<"a">>
    /\ locRes.reply = Location(<<"a">>)

\* C24, hover: on the same line and offset hover replies for "a" as well.
C24_Hover ==
    /\ locReq.handler = "hover_wikilink" /\ CursorLineInRange
    /\ CursorLine = <<"[", "[", "a", "]", "]", "[", "[", "b", "]", "]">>
    /\ Cursor = 5
    /\ locRes.reply # NoReply
    /\ locRes.reply.target = <<"a">>

\* C25, as amended: a bracket pair whose target is blank, with the cursor in
\* its span and in the span of no earlier match of the line, yields no
\* target, and goto-definition and hover return nothing.
C25_BlankTargetIsNoOccurrence ==
    (Requested /\ CursorLineInRange) =>
        LET ms == captures_iter(CursorLine) IN
        \A i \in 1..Len(ms) :
            ( /\ IsBlank(ms[i].path)
              /\ SpanHasCursor(ms[i])
              /\ \A k \in 1..(i - 1) : ~SpanHasCursor(ms[k]) )
            => /\ locRes.selected = ms[i]
               /\ locRes.reply = NoReply

\* C25 witness: the cursor inside "[[ |b]]", an environment that would
\* answer, and nothing is returned.
C25_Witness ==
    /\ Requested /\ CursorLineInRange
    /\ EnvAnswers
    /\ CursorLine = <<"[", "[", " ", "|", "b", "]", "]">>
    /\ Cursor = 3
    /\ IsBlank(locRes.selected.path)
    /\ locRes.reply = NoReply

\* C25, as claimed: a bracket pair whose target is blank, with the cursor in
\* its span, yields no target and goto-definition and hover return nothing.
C25_Original ==
    (Requested /\ CursorLineInRange) =>
        LET ms == captures_iter(CursorLine) IN
        \A i \in 1..Len(ms) :
            (IsBlank(ms[i].path) /\ SpanHasCursor(ms[i])) => locRes.reply = NoReply

\* C7: with the cursor's line past the end of the document, or the cursor
\* offset in the span of no wiki-link construct of its line, the locator
\* selects nothing and goto-definition and hover return nothing.
C7_OutsideEverySpanNoOccurrence ==
    Requested =>
        ( ( \/ ~CursorLineInRange
            \/ \A s \in 0..Len(CursorLine), e \in 0..Len(CursorLine) :
                   GrammarSpan(CursorLine, s, e) => (Cursor < s \/ Cursor > e) )
          => (locRes.selected = NoMatch /\ locRes.reply = NoReply) )

\* C7 witness: the cursor's line holds a wiki-link, the cursor is past the
\* offset after its "]]", the environment would answer, and nothing is returned.
C7_Witness ==
    /\ Requested /\ CursorLineInRange
    /\ locReq.env \in {"Vault", "Readable"}
    /\ \E s \in 0..Len(CursorLine), e \in 0..Len(CursorLine) :
          GrammarSpan(CursorLine, s, e) /\ Cursor > e
    /\ \A s \in 0..Len(CursorLine), e \in 0..Len(CursorLine) :
          GrammarSpan(CursorLine, s, e) => (Cursor < s \/ Cursor > e)
    /\ locRes = Located(NoMatch, NoReply)

====
